---- MODULE Spec2Model ----
(***************************************************************************)
(* Validation-refinement engine of adk-tide-generator.                     *)
(*                                                                         *)
(*   detection_agent/tools/iterative_validator.py  validate_and_refine_rules*)
(*   detection_agent/tools/validate_ecs_fields.py  ECSFieldValidator        *)
(*   detection_agent/tools/ecs_schema_loader.py    get_field_info           *)
(*   scripts/integration_test_ci.py   ingest_test_payloads,                *)
(*       calculate_metrics, test_single_rule_with_refinement               *)
(*   scripts/refine_detections.py     diagnose_failure, main,              *)
(*       convert_test_payloads_to_ecs                                      *)
(*   scripts/sysmon_to_ecs_mapper.py  SYSMON_TO_ECS_MAPPING,               *)
(*       convert_sysmon_to_ecs                                             *)
(*   detection_agent/tools/validate_lucene.py  validate_lucene_query,      *)
(*       basic_lucene_validation, extract_fields_from_query                *)
(*   detection_agent/per_rule_refinement.py  should_refine_query_or_tests, *)
(*       refine_rule_with_feedback                                         *)
(*   detection_agent/tools/ttp_intent_validator.py  validate_all_rules,    *)
(*       validate_rule_test_cases                                          *)
(*                                                                         *)
(* validate_and_refine_rules is a coroutine: it is modelled with one       *)
(* action per stretch of code between two suspension points (the awaits on *)
(* research_multiple_fields and generate_with_retry_func), the per-rule    *)
(* loop body being one step per rule.                                      *)
(***************************************************************************)
EXTENDS Integers, Sequences, FiniteSets, TLC

VARIABLES
    pc,                 \* position of the coroutine / of the API client
    runs,               \* number of calls of validate_and_refine_rules so far
    max_iterations,     \* argument max_iterations
    rules_data,         \* argument rules_data, replaced by each parsed response
    iteration,          \* loop variable of `for iteration in range(max_iterations)`
    rule_idx,           \* 1-based position in rules_data['rules'] of the pass
    validation_issues,  \* the issues of the current pass, in recording order
    all_valid,          \* the flag of the current pass
    iteration_history,  \* the appended iteration records
    field_results,      \* validate_fields' result for the rule being checked
    research_results,   \* what research_multiple_fields returned last
    refinement_feedback,\* the issues sent with the last regeneration call
    refined_response,   \* what generate_with_retry_func returned last
    result,             \* the value returned to the caller
    dynamic_cache,      \* ECSFieldValidator.dynamic_cache
    cache_file,         \* schemas/dynamic_fields_cache.json
    regen_calls,        \* calls of generate_with_retry_func in this run
    researched,         \* fields cached after research, in any run
    last_call,          \* the last ECSFieldValidator method called through the API
    test_cases,         \* rule_data['test_cases'] of the rule version under test
    test_catalog,       \* test_catalog[rule_name]: expected doc ids per test type
    matched_ids,        \* set(query_results['matched_ids'])
    confusion,          \* locals true_positives .. f1_score of the metrics block
    metrics,            \* the metrics dict of the evaluation
    refinement_iteration,     \* loop variable of test_single_rule_with_refinement
    max_refinement_attempts,  \* argument max_refinement_attempts
    fix_target,         \* what should_refine_query_or_tests returned last
    eval_result,        \* the value test_single_rule_with_refinement returns
    diag_metrics,       \* argument metrics of diagnose_failure
    rule_test_dir,      \* tests_dir / rule_id as diagnose_failure finds it
    diagnosis,          \* the value diagnose_failure returns
    rule_id,            \* position of main's loop in results.items()
    refinements,        \* main's list refinements
    total_fixed,        \* main's counter total_fixed
    diagnosed,          \* the rule ids main has called diagnose_failure for
    query,              \* argument query of the functions of validate_lucene
    lucene_result,      \* the value validate_lucene_query returns
    fields,             \* the value extract_fields_from_query returns
    rule_files,         \* the rule files on disk: the content of each path
    current_rule_path,  \* local current_rule_path of the per-rule loop
    decision_response,  \* what the classification's generate_content returned
    refine_call,        \* the arguments of the last refine_rule_with_feedback call
    context_defaulted,  \* history: this call has synthesized a default cti_context
    refinement_type,    \* argument refinement_type of refine_rule_with_feedback
    max_attempts,       \* its argument max_attempts
    attempt,            \* its loop variable
    generate_calls,     \* history: its calls of generate_content so far
    refined_rule,       \* what it returned or raised
    ttp_rules,          \* argument rules of validate_all_rules: test cases per rule
    max_concurrent,     \* argument max_concurrent of validate_rule_test_cases
    rule_no,            \* the position of validate_all_rules in rules
    batch_start,        \* loop variable i of validate_rule_test_cases
    in_flight,          \* the validate_test_payload tasks started and not finished
    batch_results,      \* the results of the finished tasks of the batch
    results,            \* local results of validate_rule_test_cases
    all_results         \* local all_results of validate_all_rules

\* state of test_single_rule_with_refinement
evars == <<test_cases, test_catalog, matched_ids, confusion, metrics,
           refinement_iteration, max_refinement_attempts, fix_target, eval_result>>

\* state of diagnose_failure
dvars == <<diag_metrics, rule_test_dir, diagnosis>>

\* state of refine_detections.main
rvars == <<rule_id, refinements, total_fixed, diagnosed>>

\* state of the programs other than the validator, the evaluator and the
\* diagnoser
\* state of the functions of validate_lucene
lvars == <<query, lucene_result, fields>>

\* the files and the classification of test_single_rule_with_refinement
fvars == <<rule_files, current_rule_path, decision_response, refine_call>>

\* what has happened in the call of validate_and_refine_rules
hvars == <<context_defaulted>>

\* state of refine_rule_with_feedback
gvars == <<refinement_type, max_attempts, attempt, generate_calls, refined_rule>>

\* state of validate_all_rules and validate_rule_test_cases
tvars == <<ttp_rules, max_concurrent, rule_no, batch_start, in_flight, batch_results,
           results, all_results>>

ovars == <<gvars, tvars>>

xvars == <<rvars, lvars, fvars, hvars, ovars>>

vars == <<pc, runs, max_iterations, rules_data, iteration, rule_idx,
          validation_issues, all_valid, iteration_history, field_results,
          research_results, refinement_feedback, refined_response, result,
          dynamic_cache, cache_file, regen_calls, researched, last_call,
          evars, dvars, xvars>>

(***************************************************************************)
(* Bounds of the model.                                                    *)
(***************************************************************************)
MaxIter == 3        \* max_iterations ranges over 0..MaxIter
MaxRules == 2       \* a rule batch holds at most MaxRules rules
MaxRuns == 2        \* calls of validate_and_refine_rules (process restarts)
MaxApiCalls == 3    \* direct ECSFieldValidator calls in the cache specification
MaxBatch == 2       \* validate_fields is called with at most MaxBatch field names
MaxCases == 4       \* a rule has at most MaxCases test cases
MaxLoopCases == 2   \* test cases of the rule given to the per-rule refinement loop
MaxAttempts == 2    \* max_refinement_attempts ranges over 0..MaxAttempts
MaxCount == 5       \* tp, fp, tn and fn given to diagnose_failure range over 0..MaxCount
MaxResults == 2     \* the results file read by main holds at most MaxResults rules
MaxFailCount == 2   \* tp, fp and fn of an entry of the results file range over 0..MaxFailCount
MaxQueryLen == 4    \* a query other than the test queries has at most MaxQueryLen characters
MaxIssues == 11     \* a large rule batch holds at most MaxIssues rules, one issue each at most
MaxRetries == 3     \* max_attempts of refine_rule_with_feedback ranges over 0..MaxRetries
MaxPayloads == 3    \* a rule of validate_all_rules has at most MaxPayloads test cases
MaxConcurrent == 3  \* max_concurrent of validate_rule_test_cases ranges over 1..MaxConcurrent

(***************************************************************************)
(* Program constants.                                                      *)
(***************************************************************************)
FeedbackCap == 10   \* validation_issues[:10]

(***************************************************************************)
(* Canonical schema and field names.                                       *)
(***************************************************************************)
KnownField == "event.category"
UnknownField == "custom.weird.field"

\* load_ecs_schema(): the canonical key -> {type, ...} mapping
schema == [f \in {KnownField} |-> [type |-> "keyword"]]

FieldNames == {KnownField, UnknownField}

EmptyCache == [f \in {} |-> [valid |-> FALSE]]

\* get_field_info(schema, field_name)
get_field_info(field_name) ==
    IF field_name \in DOMAIN schema
    THEN [valid |-> TRUE, type |-> schema[field_name].type, confidence |-> "none",
          source |-> "none", needs_research |-> FALSE]
    ELSE [valid |-> FALSE, type |-> "none", confidence |-> "none",
          source |-> "none", needs_research |-> FALSE]

\* validate_field consulting the dynamic cache before the schema
validate_fieldCacheFirst(cache, field_name) ==
    IF field_name \in DOMAIN cache
    THEN [cache[field_name] EXCEPT !.source = "dynamic_cache"]
    ELSE IF get_field_info(field_name).valid
         THEN get_field_info(field_name)
         ELSE [valid |-> FALSE, type |-> "none", confidence |-> "none",
               source |-> "none", needs_research |-> TRUE]

\* validate_field without the dynamic-cache tier
validate_fieldSkipCache(cache, field_name) ==
    IF get_field_info(field_name).valid
    THEN get_field_info(field_name)
    ELSE [valid |-> FALSE, type |-> "none", confidence |-> "none",
          source |-> "none", needs_research |-> TRUE]

\* ECSFieldValidator.validate_field: the value returned
validate_field(cache, field_name) ==
    IF get_field_info(field_name).valid
    THEN get_field_info(field_name)
    ELSE IF field_name \in DOMAIN cache
         THEN [cache[field_name] EXCEPT !.source = "dynamic_cache"]
         ELSE [valid |-> FALSE, type |-> "none", confidence |-> "none",
               source |-> "none", needs_research |-> TRUE]

\* validate_field dropping the cached entry it has just served
validate_field_cacheEvicting(cache, field_name) ==
    IF ~get_field_info(field_name).valid /\ field_name \in DOMAIN cache
    THEN [f \in DOMAIN cache \ {field_name} |-> cache[f]]
    ELSE cache

\* ECSFieldValidator.validate_field: its effect on dynamic_cache
\* (cached['source'] = 'dynamic_cache' is written into the cached entry)
validate_field_cache(cache, field_name) ==
    IF ~get_field_info(field_name).valid /\ field_name \in DOMAIN cache
    THEN [cache EXCEPT ![field_name].source = "dynamic_cache"]
    ELSE cache

SeqRange(s) == {s[i] : i \in 1..Len(s)}

\* validate_fields with an independent `if not valid` instead of the else branch
validate_fieldsIndependentIfs(cache, field_names) ==
    [valid_fields |->
        SelectSeq(field_names, LAMBDA f : validate_field(cache, f).valid),
     needs_research |->
        SelectSeq(field_names, LAMBDA f : /\ ~validate_field(cache, f).valid
                                          /\ validate_field(cache, f).needs_research),
     invalid_fields |->
        SelectSeq(field_names, LAMBDA f : ~validate_field(cache, f).valid)]

\* ECSFieldValidator.validate_fields: the partition returned
validate_fields(cache, field_names) ==
    [valid_fields |->
        SelectSeq(field_names, LAMBDA f : validate_field(cache, f).valid),
     needs_research |->
        SelectSeq(field_names, LAMBDA f : /\ ~validate_field(cache, f).valid
                                          /\ validate_field(cache, f).needs_research),
     invalid_fields |->
        SelectSeq(field_names, LAMBDA f : /\ ~validate_field(cache, f).valid
                                          /\ ~validate_field(cache, f).needs_research)]

\* ECSFieldValidator.validate_fields: its effect on dynamic_cache
RECURSIVE validate_fields_cache(_, _)
validate_fields_cache(cache, field_names) ==
    IF field_names = <<>> THEN cache
    ELSE validate_fields_cache(validate_field_cache(cache, Head(field_names)),
                               Tail(field_names))

\* ECSFieldValidator.cache_field: self.dynamic_cache[field_name] = field_info
cache_field(cache, field_name, field_info) ==
    [f \in DOMAIN cache \cup {field_name} |->
        IF f = field_name THEN field_info ELSE cache[f]]

\* ECSFieldValidator.cache_field: the file after the try block.  written is
\* "ok" when json.dump completed and "denied" when mkdir or open raised: the
\* except clause only prints, and the file is as it was.
WriteOutcomes == {"ok", "denied"}

persist_cache(file, cache, written) ==
    IF written = "ok" THEN [state |-> "ok", doc |-> cache] ELSE file

\* ECSFieldValidator.__init__: the dynamic_cache after construction
load_cache(file) ==
    IF file.state = "ok" THEN file.doc ELSE EmptyCache

(***************************************************************************)
(* Inputs of validate_and_refine_rules.  A rule is its query as the two    *)
(* checks see it: the verdict of validate_lucene_query and the sorted,     *)
(* deduplicated list extract_fields_from_query returns.                    *)
(***************************************************************************)
BadSyntaxRule == [lucene_valid |-> FALSE, fields |-> <<UnknownField>>]
CleanRule == [lucene_valid |-> TRUE, fields |-> <<KnownField>>]
UnknownRule == [lucene_valid |-> TRUE, fields |-> <<UnknownField, KnownField>>]

RuleKinds == {BadSyntaxRule, CleanRule, UnknownRule}

Batches == UNION {[1..n -> RuleKinds] : n \in 0..MaxRules}

\* a parsed rule-set document: the keys it has and their values ('rules' is
\* <<>> and 'cti_context' is "empty" when the key is absent)
Dict(keys, rules, ctx) == [keys |-> keys, rules |-> rules, cti_context |-> ctx]

\* rules_data.get('rules', [])
GetRules(rd) == IF "rules" \in rd.keys THEN rd.rules ELSE <<>>

\* rules_data.get('cti_context', {})
GetContext(rd) == IF "cti_context" \in rd.keys THEN rd.cti_context ELSE "empty"

\* what generate_with_retry_func can hand back, as safe_json_parse sees it
Responses ==
    {[status |-> "unparseable", data |-> Dict({}, <<>>, "empty")]}
    \cup {[status |-> "dict", data |-> Dict({"rules", "cti_context"}, b, "refined")] : b \in Batches}
    \cup {[status |-> "dict", data |-> Dict({"rules"}, b, "empty")] : b \in Batches}
    \cup {[status |-> "dict", data |-> Dict({"cti_context"}, <<>>, "refined")],
          [status |-> "dict", data |-> Dict({}, <<>>, "empty")]}

NoResponse == [status |-> "none", data |-> Dict({}, <<>>, "empty")]

\* one research result; "none" stands for a missing 'confidence' key
ResearchInfo ==
    [valid : BOOLEAN, type : {"text"}, confidence : {"high", "medium", "low", "none"},
     source : {"none"}, needs_research : {FALSE}]

\* what research_multiple_fields can hand back for the fields asked: a
\* mapping from some of them to a research result
ResearchOutcomes(asked) ==
    UNION {[S -> ResearchInfo] : S \in SUBSET SeqRange(asked)}

Issue(rule, kind, field) == [rule |-> rule, kind |-> kind, field |-> field]

(***************************************************************************)
(* validate_and_refine_rules: the pieces of the loop body.                 *)
(***************************************************************************)
\* a variant that ignores the confidence of a valid result
CacheableAnyConfidence(research) == research.valid

\* line 85: research.get('valid') and research.get('confidence') in ['high', 'medium']
Cacheable(research) ==
    research.valid /\ research.confidence \in {"high", "medium"}

\* lines 84-96: the loop over research_results.items(); st carries the
\* validator's cache, the cache file, the issues and the flag of the pass
RECURSIVE cache_researched(_, _, _, _, _)
cache_researched(asked, research, written, rule, st) ==
    IF asked = <<>> THEN st
    ELSE LET field == Head(asked)
             next ==
                IF field \notin DOMAIN research THEN st
                ELSE IF Cacheable(research[field])
                THEN [st EXCEPT
                        !.cache = cache_field(st.cache, field, research[field]),
                        !.file = persist_cache(st.file,
                                    cache_field(st.cache, field, research[field]),
                                    written[field]),
                        !.researched = st.researched \cup {field}]
                ELSE [st EXCEPT
                        !.all_valid = FALSE,
                        !.issues = Append(st.issues, Issue(rule, "research", field))]
         IN  cache_researched(Tail(asked), research, written, rule, next)

\* lines 99-104: one issue per entry of field_results['invalid_fields']
RECURSIVE invalid_issues(_, _, _)
invalid_issues(issues, invalid_fields, rule) ==
    IF invalid_fields = <<>> THEN issues
    ELSE invalid_issues(Append(issues, Issue(rule, "invalid", Head(invalid_fields))),
                        Tail(invalid_fields), rule)

\* a variant that leaves the per-rule loop (`break`) on a syntax error
NextRuleBreak(idx, rules) == Len(rules) + 1

\* line 54: `continue` after a syntax error goes on with the next rule
NextRuleAfterSyntaxError(idx, rules) == idx + 1

\* the record with the loop variable as its index
IterationRecordZeroBased(it, valid, issues) ==
    [iteration |-> it, all_valid |-> valid, issues_count |-> Len(issues)]

\* lines 107-112: the record appended to iteration_history
IterationRecord(it, valid, issues) ==
    [iteration |-> it + 1, all_valid |-> valid, issues_count |-> Len(issues)]

\* a variant that still regenerates in the last iteration
CanRefineOffByOne(it, max) == it < max

\* line 128: if iteration < max_iterations - 1
CanRefine(it, max) == it < max - 1

\* every issue of the pass is sent
FeedbackUncapped(issues) == issues

\* line 133: validation_issues[:10]
Feedback(issues) ==
    SubSeq(issues, 1, IF Len(issues) < FeedbackCap THEN Len(issues) ELSE FeedbackCap)

NoResult ==
    [keys |-> {}, rules |-> <<>>, cti_context |-> "empty", total_rules |-> 0,
     validation_iterations |-> 0, validation_history |-> <<>>,
     validation_incomplete |-> FALSE, remaining_issues |-> <<>>]

\* a variant that reports the 0-based loop index
ConvergedResultZeroBased(rd, it, history) ==
    [keys |-> {"rules", "cti_context", "total_rules", "validation_iterations",
               "validation_history"},
     rules |-> GetRules(rd), cti_context |-> GetContext(rd),
     total_rules |-> Len(GetRules(rd)), validation_iterations |-> it,
     validation_history |-> history,
     validation_incomplete |-> FALSE, remaining_issues |-> <<>>]

\* lines 119-125: the dictionary returned when all rules are valid
ConvergedResult(rd, it, history) ==
    [keys |-> {"rules", "cti_context", "total_rules", "validation_iterations",
               "validation_history"},
     rules |-> GetRules(rd), cti_context |-> GetContext(rd),
     total_rules |-> Len(GetRules(rd)), validation_iterations |-> it + 1,
     validation_history |-> history,
     validation_incomplete |-> FALSE, remaining_issues |-> <<>>]

\* lines 203-211: the dictionary returned when max_iterations is reached
ExhaustedResult(rd, max, history, issues) ==
    [keys |-> {"rules", "cti_context", "total_rules", "validation_iterations",
               "validation_history", "validation_incomplete", "remaining_issues"},
     rules |-> GetRules(rd), cti_context |-> GetContext(rd),
     total_rules |-> Len(GetRules(rd)), validation_iterations |-> max,
     validation_history |-> history,
     validation_incomplete |-> TRUE, remaining_issues |-> issues]

\* line 214: return rules_data, the value itself
FallThroughResult(rd) ==
    [keys |-> rd.keys, rules |-> rd.rules, cti_context |-> rd.cti_context,
     total_rules |-> 0, validation_iterations |-> 0, validation_history |-> <<>>,
     validation_incomplete |-> FALSE, remaining_issues |-> <<>>]

\* the response is taken as it is
AcceptResponseAsIs(data) == data

\* lines 172-185: rules_data after a response that parsed and has 'rules'
AcceptResponse(data) ==
    IF "cti_context" \in data.keys THEN data
    ELSE Dict(data.keys \cup {"cti_context"}, data.rules, "default")

NoFieldResults == [valid_fields |-> <<>>, needs_research |-> <<>>, invalid_fields |-> <<>>]

NoResearch == [f \in {} |-> [valid |-> FALSE]]

NoInfo == [valid |-> FALSE, type |-> "none", confidence |-> "none",
           source |-> "none", needs_research |-> FALSE]

NoCall == [op |-> "none", field |-> "none", batch |-> <<>>, info |-> NoInfo, count |-> 0]

(***************************************************************************)
(* Python floats that are quotients of integers, kept exact as a numerator *)
(* and a positive denominator; d = 0 marks the ZeroDivisionError a         *)
(* division by zero raises.                                                *)
(***************************************************************************)
Ratio(n, d) == [n |-> n, d |-> d]

ZeroFloat == Ratio(0, 1)

ZeroDivisionError == Ratio(0, 0)

Raised(x) == x.d = 0

\* a / b on two ints
TrueDiv(a, b) == IF b = 0 THEN ZeroDivisionError ELSE Ratio(a, b)

FloatMul(x, y) == Ratio(x.n * y.n, x.d * y.d)

FloatAdd(x, y) == Ratio(x.n * y.d + y.n * x.d, x.d * y.d)

\* x / y on two floats
FloatDiv(x, y) == IF y.n = 0 THEN ZeroDivisionError ELSE Ratio(x.n * y.d, x.d * y.n)

FloatGeq(x, y) == x.n * y.d >= y.n * x.d

FloatGt(x, y) == x.n * y.d > y.n * x.d

FloatLess(x, y) == x.n * y.d < y.n * x.d

\* round(x, 3) in thousandths, ties to even
round3(x) ==
    LET q == (1000 * x.n) \div x.d
        r == (1000 * x.n) % x.d
    IN  IF 2 * r > x.d \/ (2 * r = x.d /\ q % 2 = 1) THEN q + 1 ELSE q

(***************************************************************************)
(* Confusion-matrix evaluation: the catalog and metrics blocks of          *)
(* test_single_rule_with_refinement, the same code as ingest_test_payloads *)
(* and calculate_metrics.                                                  *)
(***************************************************************************)
TestTypes == {"TP", "FN", "FP", "TN"}

\* the test_cases lists of a rule, each test case as its type
CaseLists == UNION {[1..n -> TestTypes] : n \in 0..MaxCases}

\* the test_cases lists of the rule file given to test_single_rule_with_refinement
LoopCaseLists == UNION {[1..n -> TestTypes] : n \in 0..MaxLoopCases}

\* the test_cases lists of a rule returned by refine_rule_with_feedback:
\* no test case, or one of either type
RefinedCaseLists == {<<>>} \cup {<<t>> : t \in TestTypes}

\* doc ids that share the test type whatever the position
DocIdNoIndex(test_type, idx) == <<test_type, 0>>

\* doc_id = f"{rule_name}_{test_type}_{idx}"
DocId(test_type, idx) == <<test_type, idx>>

\* a document left in the index by an earlier rule version
StaleId == DocId("TP", MaxCases)

EmptyCatalog == [t \in TestTypes |-> <<>>]

\* the enumerate(test_cases) loop: test_catalog[rule_name] after it
RECURSIVE ingest(_, _, _)
ingest(cases, idx, catalog) ==
    IF idx >= Len(cases) THEN catalog
    ELSE ingest(cases, idx + 1,
                [catalog EXCEPT ![cases[idx + 1]] = Append(@, DocId(cases[idx + 1], idx))])

DocIds(catalog) == UNION {SeqRange(catalog[t]) : t \in TestTypes}

\* false positives counting matched FP cases only
false_positives_ofFpOnly(fp_triggered, tn_triggered) == fp_triggered

\* false_positives = fp_triggered + tn_triggered
false_positives_of(fp_triggered, tn_triggered) == fp_triggered + tn_triggered

\* precision without the guard on its denominator
precision_ofUnguarded(true_positives, false_positives) ==
    TrueDiv(true_positives, true_positives + false_positives)

\* precision = tp / (tp + fp) if (tp + fp) > 0 else 0.0
precision_of(true_positives, false_positives) ==
    IF true_positives + false_positives > 0
    THEN TrueDiv(true_positives, true_positives + false_positives)
    ELSE ZeroFloat

\* recall = tp / (tp + fn) if (tp + fn) > 0 else 0.0
recall_of(true_positives, false_negatives) ==
    IF true_positives + false_negatives > 0
    THEN TrueDiv(true_positives, true_positives + false_negatives)
    ELSE ZeroFloat

\* f1_score = 2 * (p * r) / (p + r) if (p + r) > 0 else 0.0
f1_score_of(precision, recall) ==
    IF Raised(precision) \/ Raised(recall) THEN ZeroDivisionError
    ELSE IF FloatGt(FloatAdd(precision, recall), ZeroFloat)
         THEN FloatDiv(FloatMul(Ratio(2, 1), FloatMul(precision, recall)),
                       FloatAdd(precision, recall))
         ELSE ZeroFloat

\* the threshold with the two limits exchanged
pass_thresholdSwapped(precision, recall) ==
    FloatGeq(precision, Ratio(70, 100)) /\ FloatGeq(recall, Ratio(80, 100))

\* 'pass_threshold': precision >= 0.80 and recall >= 0.70
pass_threshold(precision, recall) ==
    FloatGeq(precision, Ratio(80, 100)) /\ FloatGeq(recall, Ratio(70, 100))

\* the metrics block with matched FN cases counted as false negatives
evaluateFnMatched(expected, matched) ==
    LET expected_tp == SeqRange(expected["TP"])
        expected_fn == SeqRange(expected["FN"])
        expected_fp == SeqRange(expected["FP"])
        expected_tn == SeqRange(expected["TN"])
        tp_detected == Cardinality(matched \cap expected_tp)
        fp_triggered == Cardinality(matched \cap expected_fp)
        tn_triggered == Cardinality(matched \cap expected_tn)
        fn_missed == Cardinality(expected_fn \cap matched)
        true_positives == tp_detected
        false_positives == false_positives_of(fp_triggered, tn_triggered)
        false_negatives == Cardinality(expected_tp) - tp_detected + fn_missed
        precision == precision_of(true_positives, false_positives)
        recall == recall_of(true_positives, false_negatives)
    IN  [tp_detected |-> tp_detected,
         tp_total |-> Cardinality(expected_tp),
         fn_missed |-> fn_missed,
         fn_total |-> Cardinality(expected_fn),
         fp_triggered |-> fp_triggered,
         fp_total |-> Cardinality(expected_fp),
         tn_triggered |-> tn_triggered,
         tn_total |-> Cardinality(expected_tn),
         true_positives |-> true_positives,
         false_positives |-> false_positives,
         false_negatives |-> false_negatives,
         precision |-> precision,
         recall |-> recall,
         f1_score |-> f1_score_of(precision, recall)]

\* the locals of the metrics block
evaluate(expected, matched) ==
    LET expected_tp == SeqRange(expected["TP"])
        expected_fn == SeqRange(expected["FN"])
        expected_fp == SeqRange(expected["FP"])
        expected_tn == SeqRange(expected["TN"])
        tp_detected == Cardinality(matched \cap expected_tp)
        fp_triggered == Cardinality(matched \cap expected_fp)
        tn_triggered == Cardinality(matched \cap expected_tn)
        true_positives == tp_detected
        false_positives == false_positives_of(fp_triggered, tn_triggered)
        false_negatives == Cardinality(expected_tp) - tp_detected
        precision == precision_of(true_positives, false_positives)
        recall == recall_of(true_positives, false_negatives)
    IN  [tp_detected |-> tp_detected,
         tp_total |-> Cardinality(expected_tp),
         fn_missed |-> Cardinality(expected_fn \cap matched),
         fn_total |-> Cardinality(expected_fn),
         fp_triggered |-> fp_triggered,
         fp_total |-> Cardinality(expected_fp),
         tn_triggered |-> tn_triggered,
         tn_total |-> Cardinality(expected_tn),
         true_positives |-> true_positives,
         false_positives |-> false_positives,
         false_negatives |-> false_negatives,
         precision |-> precision,
         recall |-> recall,
         f1_score |-> f1_score_of(precision, recall)]

\* a division of the metrics block raised
EvaluateRaised(c) == Raised(c.precision) \/ Raised(c.recall) \/ Raised(c.f1_score)

\* the metrics dict built from the locals
metrics_dict(c) ==
    [tp_detected |-> c.tp_detected, tp_total |-> c.tp_total,
     fn_missed |-> c.fn_missed, fn_total |-> c.fn_total,
     fp_triggered |-> c.fp_triggered, fp_total |-> c.fp_total,
     tn_triggered |-> c.tn_triggered, tn_total |-> c.tn_total,
     precision |-> round3(c.precision),
     recall |-> round3(c.recall),
     f1_score |-> round3(c.f1_score),
     pass_threshold |-> pass_threshold(c.precision, c.recall)]

\* the metrics block not run yet
NoConfusion ==
    [tp_detected |-> 0, tp_total |-> 0, fn_missed |-> 0, fn_total |-> 0,
     fp_triggered |-> 0, fp_total |-> 0, tn_triggered |-> 0, tn_total |-> 0,
     true_positives |-> 0, false_positives |-> 0, false_negatives |-> 0,
     precision |-> ZeroFloat, recall |-> ZeroFloat, f1_score |-> ZeroFloat]

NoMetrics ==
    [tp_detected |-> 0, tp_total |-> 0, fn_missed |-> 0, fn_total |-> 0,
     fp_triggered |-> 0, fp_total |-> 0, tn_triggered |-> 0, tn_total |-> 0,
     precision |-> 0, recall |-> 0, f1_score |-> 0, pass_threshold |-> FALSE]

NoEvalResult ==
    [rule_name |-> "none", metrics |-> NoMetrics, refined |-> FALSE,
     refinement_iterations |-> 0]

\* the return dict of test_single_rule_with_refinement
EvalResult(m, refined, iterations) ==
    [rule_name |-> "rule", metrics |-> m, refined |-> refined,
     refinement_iterations |-> iterations]

\* the argument rule_file
original_file == <<"rule", ".yml">>

\* str(refinement_iteration)
str(n) == <<"0", "1", "2", "3", "4", "5", "6", "7", "8", "9">>[n + 1]

\* the refined rule saved at the original location
temp_refinedInPlace(n) == original_file

\* f"{original_file.stem}_refined_{refinement_iteration}.yml"
temp_refined(n) == <<original_file[1], "_refined_", str(n), ".yml">>

\* the content of a rule file: the number of regenerations that led to it
\* (0 for the rule the function is called with) and its test cases
RuleVersion(version, cases) == [version |-> version, test_cases |-> cases]

\* open(path, 'w') followed by the write of content
write_file(files, path, content) ==
    [f \in DOMAIN files \cup {path} |-> IF f = path THEN content ELSE files[f]]

\* lines 390-396: a pass after a refinement copies the current version to
\* the original location
write_back(files, path, n) ==
    IF n > 0 THEN write_file(files, original_file, files[path]) ELSE files

\* what yaml.safe_load makes of the classification response: it raises
\* (or the text is None), it yields something that is not a dict, or it
\* yields a dict, with or without the key needs_fixing
ClassificationResponses ==
    {[parsed |-> "raises", has_key |-> FALSE, needs_fixing |-> "none"],
     [parsed |-> "not_a_dict", has_key |-> FALSE, needs_fixing |-> "none"],
     [parsed |-> "dict", has_key |-> FALSE, needs_fixing |-> "none"]}
    \cup {[parsed |-> "dict", has_key |-> TRUE, needs_fixing |-> v] :
              v \in {"query", "tests", "both", "neither"}}

NoClassification == [parsed |-> "none", has_key |-> FALSE, needs_fixing |-> "none"]

\* should_refine_query_or_tests, lines 230-244, of a response r
should_refine_query_or_tests(r) ==
    IF r.parsed = "dict"
    THEN IF r.has_key THEN r.needs_fixing ELSE "query"
    ELSE "query"

\* lines 418-432: the feedback dict built from the locals of the metrics
\* block, the search result and the catalog
feedback(c, catalog, matched) ==
    [precision |-> c.precision, recall |-> c.recall, f1_score |-> c.f1_score,
     tp_detected |-> c.tp_detected, tp_total |-> c.tp_total,
     fn_missed |-> c.fn_missed, fn_total |-> c.fn_total,
     fp_triggered |-> c.fp_triggered, fp_total |-> c.fp_total,
     tn_triggered |-> c.tn_triggered, tn_total |-> c.tn_total,
     query_results |-> matched, test_catalog |-> catalog]

\* the decision is handed on as the refinement type
refine_requestTargeted(rule, fb, target) ==
    [original_rule |-> rule, feedback |-> fb, refinement_type |-> target,
     cti_content |-> "", prompts |-> <<>>, max_attempts |-> 2]

\* lines 444-452: the arguments of refine_rule_with_feedback, where
\* fix_target is in scope
refine_request(rule, fb, target) ==
    [original_rule |-> rule, feedback |-> fb, refinement_type |-> "integration",
     cti_content |-> "", prompts |-> <<>>, max_attempts |-> 2]

NoRefineCall ==
    [original_rule |-> RuleVersion(0, <<>>), feedback |-> "none",
     refinement_type |-> "none", cti_content |-> "", prompts |-> <<>>,
     max_attempts |-> 0]

\* before test_single_rule_with_refinement is called
EvalIdle ==
    /\ test_cases = <<>>
    /\ test_catalog = EmptyCatalog
    /\ matched_ids = {}
    /\ confusion = NoConfusion
    /\ metrics = NoMetrics
    /\ refinement_iteration = 0
    /\ max_refinement_attempts = 0
    /\ fix_target = "none"
    /\ eval_result = NoEvalResult

(***************************************************************************)
(* Failure diagnosis (refine_detections.py).  A field name is the sequence *)
(* of its dot-separated segments: 'process.pid' is <<"process", "pid">>,   *)
(* and '.' in name holds exactly of the names with several segments.       *)
(***************************************************************************)
SYSMON_TO_ECS_MAPPING ==
    (<<"Image">> :> <<"process", "executable">>)
    @@ (<<"CommandLine">> :> <<"process", "command_line">>)
    @@ (<<"ParentImage">> :> <<"process", "parent", "executable">>)
    @@ (<<"ParentCommandLine">> :> <<"process", "parent", "command_line">>)
    @@ (<<"ProcessId">> :> <<"process", "pid">>)
    @@ (<<"ProcessGuid">> :> <<"process", "entity_id">>)
    @@ (<<"User">> :> <<"user", "name">>)
    @@ (<<"TargetFilename">> :> <<"file", "path">>)
    @@ (<<"TargetObject">> :> <<"registry", "path">>)
    @@ (<<"EventID">> :> <<"event", "code">>)
    @@ (<<"UtcTime">> :> <<"@timestamp">>)
    @@ (<<"DestinationIp">> :> <<"destination", "ip">>)
    @@ (<<"DestinationPort">> :> <<"destination", "port">>)
    @@ (<<"SourceIp">> :> <<"source", "ip">>)
    @@ (<<"SourcePort">> :> <<"source", "port">>)

\* the keys a sample payload is built from: a Sysmon name, a dotted name,
\* '@timestamp' and a name that is neither
PayloadFields == {<<"Image">>, <<"process", "name">>, <<"@timestamp">>, <<"host">>}

\* json.load(sample_file): with or without a 'log_entry' wrapper; fields
\* are the keys of log_entry = sample.get('log_entry', sample)
Samples == [wrapped : BOOLEAN, fields : SUBSET PayloadFields]

NoSample == [wrapped |-> FALSE, fields |-> {}]

\* tests_dir / rule_id: absent, without a *.json file, or with a first one
TestDirs ==
    {[exists |-> FALSE, has_json |-> FALSE, sample |-> NoSample],
     [exists |-> TRUE, has_json |-> FALSE, sample |-> NoSample]}
    \cup {[exists |-> TRUE, has_json |-> TRUE, sample |-> s] : s \in Samples}

\* the metrics argument of diagnose_failure
MetricsInputs == [tp : 0..MaxCount, fp : 0..MaxCount, tn : 0..MaxCount, fn : 0..MaxCount]

Diagnosis(issue, action, confidence) ==
    [issue |-> issue, action |-> action, confidence |-> confidence]

NoDiagnosis == Diagnosis("none", "none", ZeroFloat)

\* every mapping key has to be in the payload
has_sysmon_fieldsAll(log_entry) ==
    \A field \in DOMAIN SYSMON_TO_ECS_MAPPING : field \in log_entry

\* any(field in log_entry for field in SYSMON_TO_ECS_MAPPING.keys())
has_sysmon_fields(log_entry) ==
    \E field \in DOMAIN SYSMON_TO_ECS_MAPPING : field \in log_entry

\* only dotted names count as ECS names
has_ecs_fieldsDottedOnly(log_entry) ==
    \E field \in log_entry : Len(field) > 1

\* any('.' in field or field == '@timestamp' for field in log_entry.keys())
has_ecs_fields(log_entry) ==
    \E field \in log_entry : Len(field) > 1 \/ field = <<"@timestamp">>

\* the recall check precedes the false-negative check
diagnose_failureRecallFirst(m, dir) ==
    IF m.tp = 0 /\ m.fp = 0 /\ ~dir.exists
    THEN Diagnosis("no_test_payloads", "skip", Ratio(1, 1))
    ELSE IF m.tp = 0 /\ m.fp = 0 /\ ~dir.has_json
    THEN Diagnosis("no_test_payloads", "skip", Ratio(1, 1))
    ELSE IF /\ m.tp = 0 /\ m.fp = 0
            /\ has_sysmon_fields(dir.sample.fields)
            /\ ~has_ecs_fields(dir.sample.fields)
    THEN Diagnosis("field_mismatch", "convert_sysmon_to_ecs", Ratio(95, 100))
    ELSE IF m.tp > 0 /\ FloatLess(TrueDiv(m.tp, m.tp + m.fn), Ratio(70, 100))
    THEN Diagnosis("low_recall", "analyze_false_negatives", Ratio(70, 100))
    ELSE IF m.fn > m.tp /\ m.tp > 0
    THEN Diagnosis("rule_too_strict", "broaden_rule", Ratio(75, 100))
    ELSE IF m.fp > m.tp /\ m.tp > 0
    THEN Diagnosis("rule_too_broad", "add_filters", Ratio(80, 100))
    ELSE Diagnosis("unknown", "manual_review", ZeroFloat)

\* the false-positive check precedes the false-negative check
diagnose_failureBroadFirst(m, dir) ==
    IF m.tp = 0 /\ m.fp = 0 /\ ~dir.exists
    THEN Diagnosis("no_test_payloads", "skip", Ratio(1, 1))
    ELSE IF m.tp = 0 /\ m.fp = 0 /\ ~dir.has_json
    THEN Diagnosis("no_test_payloads", "skip", Ratio(1, 1))
    ELSE IF /\ m.tp = 0 /\ m.fp = 0
            /\ has_sysmon_fields(dir.sample.fields)
            /\ ~has_ecs_fields(dir.sample.fields)
    THEN Diagnosis("field_mismatch", "convert_sysmon_to_ecs", Ratio(95, 100))
    ELSE IF m.fp > m.tp /\ m.tp > 0
    THEN Diagnosis("rule_too_broad", "add_filters", Ratio(80, 100))
    ELSE IF m.fn > m.tp /\ m.tp > 0
    THEN Diagnosis("rule_too_strict", "broaden_rule", Ratio(75, 100))
    ELSE IF m.tp > 0 /\ FloatLess(TrueDiv(m.tp, m.tp + m.fn), Ratio(70, 100))
    THEN Diagnosis("low_recall", "analyze_false_negatives", Ratio(70, 100))
    ELSE Diagnosis("unknown", "manual_review", ZeroFloat)

\* diagnose_failure(rule_id, metrics, rules_dir, tests_dir)
diagnose_failure(m, dir) ==
    IF m.tp = 0 /\ m.fp = 0 /\ ~dir.exists
    THEN Diagnosis("no_test_payloads", "skip", Ratio(1, 1))
    ELSE IF m.tp = 0 /\ m.fp = 0 /\ ~dir.has_json
    THEN Diagnosis("no_test_payloads", "skip", Ratio(1, 1))
    ELSE IF /\ m.tp = 0 /\ m.fp = 0
            /\ has_sysmon_fields(dir.sample.fields)
            /\ ~has_ecs_fields(dir.sample.fields)
    THEN Diagnosis("field_mismatch", "convert_sysmon_to_ecs", Ratio(95, 100))
    ELSE IF m.fn > m.tp /\ m.tp > 0
    THEN Diagnosis("rule_too_strict", "broaden_rule", Ratio(75, 100))
    ELSE IF m.fp > m.tp /\ m.tp > 0
    THEN Diagnosis("rule_too_broad", "add_filters", Ratio(80, 100))
    ELSE IF m.tp > 0 /\ FloatLess(TrueDiv(m.tp, m.tp + m.fn), Ratio(70, 100))
    THEN Diagnosis("low_recall", "analyze_false_negatives", Ratio(70, 100))
    ELSE Diagnosis("unknown", "manual_review", ZeroFloat)

\* convert_sysmon_to_ecs(sysmon_doc), as the set of the top-level keys of
\* the document it returns: a mapped key is replaced by the first segment of
\* its ECS name (the rest is nested below it), any other key is kept
convert_sysmon_to_ecs(sysmon_doc) ==
    {IF sysmon_field \in DOMAIN SYSMON_TO_ECS_MAPPING
        THEN <<Head(SYSMON_TO_ECS_MAPPING[sysmon_field])>>
        ELSE sysmon_field : sysmon_field \in sysmon_doc}

\* convert_test_payloads_to_ecs(tests_dir, rule_id, backup_dir): the
\* directory afterwards and the count returned; only a payload with a
\* 'log_entry' wrapper is converted, every payload file is rewritten
convert_test_payloads_to_ecs(dir) ==
    IF ~dir.exists
    THEN [dir |-> dir, converted_count |-> 0]
    ELSE IF ~dir.has_json
    THEN [dir |-> dir, converted_count |-> 0]
    ELSE [dir |-> [dir EXCEPT !.sample.fields =
                      IF dir.sample.wrapped
                      THEN convert_sysmon_to_ecs(dir.sample.fields)
                      ELSE dir.sample.fields],
          converted_count |-> 1]

\* a fix is applied unless the action is 'skip'
applies_fixUnlessSkip(action) == action # "skip"

\* main, line 203: if diagnosis['action'] == 'convert_sysmon_to_ecs'
applies_fix(action) == action = "convert_sysmon_to_ecs"

\* the f1_score values of an entry of the results file
F1Scores == {Ratio(50, 100), Ratio(75, 100)}

\* the entries of the results file: metrics with their f1_score
ResultEntries ==
    [tp : 0..MaxFailCount, fp : 0..MaxFailCount, tn : {0}, fn : 0..MaxFailCount,
     f1_score : F1Scores]

\* the test directories main meets: those of TestDirs whose sample payload
\* is built from a Sysmon name and a dotted name
DriverDirs ==
    {dir \in TestDirs :
        dir.sample.fields \subseteq {<<"Image">>, <<"process", "name">>}}

\* before diagnose_failure is called
DiagIdle ==
    /\ diag_metrics = [tp |-> 0, fp |-> 0, tn |-> 0, fn |-> 0]
    /\ rule_test_dir = [exists |-> FALSE, has_json |-> FALSE, sample |-> NoSample]
    /\ diagnosis = NoDiagnosis

(***************************************************************************)
(* Lucene syntax check and field extraction (validate_lucene.py).  A query *)
(* is the sequence of its characters.                                      *)
(***************************************************************************)
LowerCase ==
    {"a", "b", "c", "d", "e", "f", "g", "h", "i", "j", "k", "l", "m",
     "n", "o", "p", "q", "r", "s", "t", "u", "v", "w", "x", "y", "z"}

UpperCase ==
    {"A", "B", "C", "D", "E", "F", "G", "H", "I", "J", "K", "L", "M",
     "N", "O", "P", "Q", "R", "S", "T", "U", "V", "W", "X", "Y", "Z"}

Digits == {"0", "1", "2", "3", "4", "5", "6", "7", "8", "9"}

\* [a-zA-Z]
IsLetter(c) == c \in LowerCase \cup UpperCase

\* [a-zA-Z_], the first character of a match
IsNameStart(c) == IsLetter(c) \/ c = "_"

\* [a-zA-Z0-9_\.], the later characters of a match
IsNameChar(c) == IsNameStart(c) \/ c \in Digits \/ c = "."

\* \s, over the characters of the queries below
IsSpace(c) == c = " "

\* the characters of a name in the order of their code points
CodePoints ==
    <<".", "0", "1", "2", "3", "4", "5", "6", "7", "8", "9",
      "A", "B", "C", "D", "E", "F", "G", "H", "I", "J", "K", "L", "M",
      "N", "O", "P", "Q", "R", "S", "T", "U", "V", "W", "X", "Y", "Z", "_",
      "a", "b", "c", "d", "e", "f", "g", "h", "i", "j", "k", "l", "m",
      "n", "o", "p", "q", "r", "s", "t", "u", "v", "w", "x", "y", "z">>

\* the position of a name character in the order of the code points
ord(c) == CHOOSE k \in 1..Len(CodePoints) : CodePoints[k] = c

\* str.__lt__: a < b for two names
str_less(a, b) ==
    \E k \in 1..Len(b) :
        /\ k <= Len(a) + 1
        /\ \A j \in 1..(k - 1) : a[j] = b[j]
        /\ k = Len(a) + 1 \/ ord(a[k]) < ord(b[k])

\* the test queries of the module (lines 95-99)
TestQuery1 ==
    <<"e", "v", "e", "n", "t", ".", "c", "a", "t", "e", "g", "o", "r", "y",
      ":", "p", "r", "o", "c", "e", "s", "s", " ", "A", "N", "D", " ", "p",
      "r", "o", "c", "e", "s", "s", ".", "n", "a", "m", "e", ":", "*", "c",
      "m", "d", ".", "e", "x", "e", "*">>

TestQuery2 ==
    <<"p", "r", "o", "c", "e", "s", "s", ".", "c", "o", "m", "m", "a", "n",
      "d", "_", "l", "i", "n", "e", ":", "(", "*", "s", "t", "o", "p", "*",
      " ", "/", "y", "*", ")">>

TestQuery3 ==
    <<"e", "v", "e", "n", "t", ".", "c", "a", "t", "e", "g", "o", "r", "y",
      ":", "f", "i", "l", "e", " ", "A", "N", "D", " ", "f", "i", "l", "e",
      ".", "n", "a", "m", "e", ":", "(", "t", "e", "s", "t">>

\* the characters the other queries are built from
QueryChars == {"a", "b", ".", "1", " ", ":", "(", ")", "/"}

Queries ==
    UNION {[1..n -> QueryChars] : n \in 0..MaxQueryLen}
    \cup {TestQuery1, TestQuery2, TestQuery3}

\* query.count(ch)
RECURSIVE count(_, _)
count(q, ch) ==
    IF q = <<>> THEN 0
    ELSE (IF Head(q) = ch THEN 1 ELSE 0) + count(Tail(q), ch)

\* re.search(r'\s/[a-zA-Z]', query)
literal_slash(q) ==
    \E i \in 1..(Len(q) - 2) :
        IsSpace(q[i]) /\ q[i + 1] = "/" /\ IsLetter(q[i + 2])

LuceneError(kind, open_count, close_count) ==
    [kind |-> kind, open_count |-> open_count, close_count |-> close_count]

LuceneResult(valid, errors, message) ==
    [valid |-> valid, errors |-> errors, message |-> message]

NoLuceneResult == LuceneResult(FALSE, <<>>, "none")

\* only a surplus of '(' is an error
basic_lucene_validationOpenSurplus(q) ==
    LET open_count == count(q, "(")
        close_count == count(q, ")")
        errors == (IF open_count > close_count
                   THEN <<LuceneError("Unbalanced parentheses", open_count, close_count)>>
                   ELSE <<>>)
                  \o (IF literal_slash(q)
                      THEN <<LuceneError("Literal slash detected", 0, 0)>>
                      ELSE <<>>)
    IN  IF errors # <<>>
        THEN LuceneResult(FALSE, errors, "none")
        ELSE LuceneResult(TRUE, <<>>, "Basic validation passed")

\* basic_lucene_validation(query); 'error' is the list errors before it is
\* joined with '; '
basic_lucene_validation(q) ==
    LET open_count == count(q, "(")
        close_count == count(q, ")")
        errors == (IF open_count # close_count
                   THEN <<LuceneError("Unbalanced parentheses", open_count, close_count)>>
                   ELSE <<>>)
                  \o (IF literal_slash(q)
                      THEN <<LuceneError("Literal slash detected", 0, 0)>>
                      ELSE <<>>)
    IN  IF errors # <<>>
        THEN LuceneResult(FALSE, errors, "none")
        ELSE LuceneResult(TRUE, <<>>, "Basic validation passed")

\* the end of the greedy [a-zA-Z0-9_\.]* from position i on
RECURSIVE name_end(_, _)
name_end(q, i) ==
    IF i < Len(q) /\ IsNameChar(q[i + 1])
    THEN name_end(q, i + 1)
    ELSE i

\* the first position from i on that \s* does not consume
RECURSIVE skip_space(_, _)
skip_space(q, i) ==
    IF i <= Len(q) /\ IsSpace(q[i])
    THEN skip_space(q, i + 1)
    ELSE i

\* re.findall(pattern, query) from position i on: the leftmost matches of
\* ([a-zA-Z_][a-zA-Z0-9_\.]*)\s*: that do not overlap, as their groups
RECURSIVE findall(_, _)
findall(q, i) ==
    IF i > Len(q) THEN <<>>
    ELSE IF ~IsNameStart(q[i]) THEN findall(q, i + 1)
    ELSE LET e == name_end(q, i)
             c == skip_space(q, e + 1)
         IN  IF c <= Len(q) /\ q[c] = ":"
             THEN <<SubSeq(q, i, e)>> \o findall(q, c + 1)
             ELSE findall(q, i + 1)

\* set(fields): the elements of fields without repetition
RECURSIVE set_of(_)
set_of(names) ==
    IF names = <<>> THEN <<>>
    ELSE LET rest == set_of(SubSeq(names, 1, Len(names) - 1))
             last == names[Len(names)]
         IN  IF \E i \in 1..Len(rest) : rest[i] = last
             THEN rest
             ELSE Append(rest, last)

\* the position of x in an ascending list
insert_at(sorted_list, x) ==
    1 + Cardinality({i \in 1..Len(sorted_list) : ~str_less(x, sorted_list[i])})

\* sorted(names)
RECURSIVE sorted(_)
sorted(names) ==
    IF names = <<>> THEN <<>>
    ELSE LET rest == sorted(Tail(names))
             k == insert_at(rest, Head(names))
         IN  SubSeq(rest, 1, k - 1) \o <<Head(names)>> \o SubSeq(rest, k, Len(rest))

\* the matches are sorted as they are
extract_fields_from_queryNoSet(q) == sorted(findall(q, 1))

\* extract_fields_from_query(query)
extract_fields_from_query(q) == sorted(set_of(findall(q, 1)))

\* refine_rule_with_feedback has not returned
NoReturn == [kind |-> "none", rule |-> "none"]

\* validate_rule_test_cases has not been entered
NoTtpResults ==
    [total_tests |-> 0, validations |-> <<>>, valid |-> 0, invalid |-> 0, errors |-> 0]

\* before a query is checked
LuceneIdle ==
    /\ query = <<>>
    /\ lucene_result = NoLuceneResult
    /\ fields = <<>>

\* before main runs
DriverIdle ==
    /\ rule_id = 0
    /\ refinements = <<>>
    /\ total_fixed = 0
    /\ diagnosed = <<>>

\* before test_single_rule_with_refinement is called
FilesIdle ==
    /\ rule_files = (original_file :> RuleVersion(0, <<>>))
    /\ current_rule_path = original_file
    /\ decision_response = NoClassification
    /\ refine_call = NoRefineCall

\* before validate_and_refine_rules is called
HistoryIdle == context_defaulted = FALSE

\* before refine_rule_with_feedback is called
RegenIdle ==
    /\ refinement_type = "none"
    /\ max_attempts = 0
    /\ attempt = 0
    /\ generate_calls = 0
    /\ refined_rule = NoReturn

\* before validate_all_rules is called
TtpIdle ==
    /\ ttp_rules = <<>>
    /\ max_concurrent = 0
    /\ rule_no = 0
    /\ batch_start = 0
    /\ in_flight = {}
    /\ batch_results = <<>>
    /\ results = NoTtpResults
    /\ all_results = <<>>

OthersIdle == DriverIdle /\ LuceneIdle /\ FilesIdle /\ HistoryIdle /\ RegenIdle /\ TtpIdle

(***************************************************************************)
(* State machine of validate_and_refine_rules.                             *)
(***************************************************************************)
\* before any call: no validator yet, no cache file on disk
Fresh ==
    /\ runs = 0
    /\ max_iterations = 0
    /\ rules_data = Dict({"rules", "cti_context"}, <<>>, "cti")
    /\ iteration = 0
    /\ rule_idx = 1
    /\ validation_issues = <<>>
    /\ all_valid = TRUE
    /\ iteration_history = <<>>
    /\ field_results = NoFieldResults
    /\ research_results = NoResearch
    /\ refinement_feedback = <<>>
    /\ refined_response = NoResponse
    /\ result = NoResult
    /\ dynamic_cache = EmptyCache
    /\ cache_file = [state |-> "missing", doc |-> EmptyCache]
    /\ regen_calls = 0
    /\ researched = {}
    /\ last_call = NoCall

Init ==
    /\ pc = "idle"
    /\ Fresh
    /\ EvalIdle
    /\ DiagIdle
    /\ OthersIdle

\* lines 12-36: a call of validate_and_refine_rules in a fresh process; the
\* validator is constructed and the first pass begins (or, with
\* max_iterations = 0, the loop body never runs and line 214 returns)
Enter(batch, max) ==
    /\ runs' = runs + 1
    /\ max_iterations' = max
    /\ rules_data' = Dict({"rules", "cti_context"}, batch, "cti")
    /\ dynamic_cache' = load_cache(cache_file)
    /\ iteration_history' = <<>>
    /\ iteration' = 0
    /\ rule_idx' = 1
    /\ validation_issues' = <<>>
    /\ all_valid' = TRUE
    /\ field_results' = NoFieldResults
    /\ research_results' = NoResearch
    /\ refinement_feedback' = <<>>
    /\ refined_response' = NoResponse
    /\ regen_calls' = 0
    /\ IF max = 0
       THEN pc' = "done" /\ result' = FallThroughResult(rules_data')
       ELSE pc' = "validate" /\ result' = NoResult
    /\ context_defaulted' = FALSE
    /\ UNCHANGED <<cache_file, researched, last_call, evars, dvars, rvars, lvars, fvars, ovars>>

\* the first call of validate_and_refine_rules
Call(batch, max) ==
    /\ pc = "idle"
    /\ Enter(batch, max)

\* a later call in a new process, after the previous one returned or raised
Restart(batch, max) ==
    /\ pc \in {"done", "raised"}
    /\ runs < MaxRuns
    /\ Enter(batch, max)

\* lines 39-104 for one rule, up to the await on research_multiple_fields
ValidateRule ==
    /\ pc = "validate"
    /\ rule_idx <= Len(GetRules(rules_data))
    /\ LET rule == GetRules(rules_data)[rule_idx]
           fr == validate_fields(dynamic_cache, rule.fields)
       IN  IF ~rule.lucene_valid
           THEN /\ all_valid' = FALSE
                /\ validation_issues' =
                      Append(validation_issues, Issue(rule_idx, "syntax", "none"))
                /\ rule_idx' = NextRuleAfterSyntaxError(rule_idx, GetRules(rules_data))
                /\ field_results' = NoFieldResults
                /\ UNCHANGED <<pc, dynamic_cache>>
           ELSE /\ field_results' = fr
                /\ dynamic_cache' = validate_fields_cache(dynamic_cache, rule.fields)
                /\ IF fr.needs_research # <<>>
                   THEN /\ pc' = "research"
                        /\ UNCHANGED <<all_valid, validation_issues, rule_idx>>
                   ELSE /\ all_valid' = (all_valid /\ fr.invalid_fields = <<>>)
                        /\ validation_issues' =
                              invalid_issues(validation_issues, fr.invalid_fields, rule_idx)
                        /\ rule_idx' = rule_idx + 1
                        /\ UNCHANGED pc
    /\ research_results' = NoResearch
    /\ UNCHANGED <<runs, max_iterations, rules_data, iteration, iteration_history,
                   refinement_feedback, refined_response, result,
                   cache_file, regen_calls, researched, last_call, evars, dvars, xvars>>

\* lines 77-104: research_multiple_fields returns; its results are cached or
\* recorded as issues, then the invalid fields of the rule are recorded
ResearchReturns(research, written) ==
    /\ pc = "research"
    /\ LET st == cache_researched(field_results.needs_research, research, written,
                    rule_idx,
                    [cache |-> dynamic_cache, file |-> cache_file,
                     issues |-> validation_issues, all_valid |-> all_valid,
                     researched |-> researched])
       IN  /\ research_results' = research
           /\ dynamic_cache' = st.cache
           /\ cache_file' = st.file
           /\ researched' = st.researched
           /\ all_valid' = (st.all_valid /\ field_results.invalid_fields = <<>>)
           /\ validation_issues' =
                 invalid_issues(st.issues, field_results.invalid_fields, rule_idx)
    /\ rule_idx' = rule_idx + 1
    /\ pc' = "validate"
    /\ UNCHANGED <<runs, max_iterations, rules_data, iteration, iteration_history,
                   field_results, refinement_feedback, refined_response, result,
                   regen_calls, last_call, evars, dvars, xvars>>

\* lines 77-81: research_multiple_fields raises; nothing catches it
ResearchRaises ==
    /\ pc = "research"
    /\ pc' = "raised"
    /\ UNCHANGED <<runs, max_iterations, rules_data, iteration, rule_idx,
                   validation_issues, all_valid, iteration_history, field_results,
                   research_results, refinement_feedback, refined_response, result,
                   dynamic_cache, cache_file, regen_calls,
                   researched, last_call, evars, dvars, xvars>>

\* lines 106-167 and 190-211: the end of a pass, up to the await on
\* generate_with_retry_func or to a return
EndPass ==
    /\ pc = "validate"
    /\ rule_idx > Len(GetRules(rules_data))
    /\ iteration_history' =
          Append(iteration_history,
                 IterationRecord(iteration, all_valid, validation_issues))
    /\ IF all_valid
       THEN /\ pc' = "done"
            /\ result' = ConvergedResult(rules_data, iteration, iteration_history')
            /\ UNCHANGED <<refinement_feedback, regen_calls>>
       ELSE IF CanRefine(iteration, max_iterations)
       THEN /\ pc' = "regen"
            /\ refinement_feedback' = Feedback(validation_issues)
            /\ regen_calls' = regen_calls + 1
            /\ UNCHANGED result
       ELSE /\ pc' = "done"
            /\ result' = ExhaustedResult(rules_data, max_iterations,
                                         iteration_history', validation_issues)
            /\ UNCHANGED <<refinement_feedback, regen_calls>>
    /\ field_results' = NoFieldResults
    /\ research_results' = NoResearch
    /\ UNCHANGED <<runs, max_iterations, rules_data, iteration, rule_idx,
                   validation_issues, all_valid,
                   refined_response, dynamic_cache, cache_file,
                   researched, last_call, evars, dvars, xvars>>

\* lines 160-189 and 31-36, 214: generate_with_retry_func returns; the
\* response is parsed and the next pass begins, or the loop is left by break
RegenReturns(response) ==
    /\ pc = "regen"
    /\ refined_response' = response
    /\ refinement_feedback' = <<>>
    /\ IF response.status = "unparseable"
       THEN \* safe_json_parse raised: rules_data keeps its value
            /\ pc' = "done"
            /\ result' = FallThroughResult(rules_data)
            /\ UNCHANGED <<rules_data, iteration, rule_idx, validation_issues, all_valid,
                           context_defaulted>>
       ELSE IF "rules" \notin response.data.keys
       THEN /\ rules_data' = response.data
            /\ pc' = "done"
            /\ result' = FallThroughResult(response.data)
            /\ UNCHANGED <<iteration, rule_idx, validation_issues, all_valid,
                           context_defaulted>>
       ELSE /\ rules_data' = AcceptResponse(response.data)
            /\ context_defaulted' =
                  (context_defaulted \/ "cti_context" \notin response.data.keys)
            /\ iteration' = iteration + 1
            /\ rule_idx' = 1
            /\ validation_issues' = <<>>
            /\ all_valid' = TRUE
            /\ IF iteration + 1 < max_iterations
               THEN pc' = "validate" /\ UNCHANGED result
               ELSE pc' = "done" /\ result' = FallThroughResult(rules_data')
    /\ UNCHANGED <<runs, max_iterations, iteration_history, field_results,
                   research_results, dynamic_cache, cache_file,
                   regen_calls, researched, last_call, evars, dvars, rvars, lvars, fvars, ovars>>

\* lines 160-167: generate_with_retry_func raises; nothing catches it
RegenRaises ==
    /\ pc = "regen"
    /\ pc' = "raised"
    /\ UNCHANGED <<runs, max_iterations, rules_data, iteration, rule_idx,
                   validation_issues, all_valid, iteration_history, field_results,
                   research_results, refinement_feedback, refined_response, result,
                   dynamic_cache, cache_file, regen_calls,
                   researched, last_call, evars, dvars, xvars>>

Next ==
    \/ \E batch \in Batches, max \in 0..MaxIter : Call(batch, max)
    \/ ValidateRule
    \/ \E research \in ResearchOutcomes(field_results.needs_research),
          written \in [SeqRange(field_results.needs_research) -> WriteOutcomes] :
            ResearchReturns(research, written)
    \/ ResearchRaises
    \/ EndPass
    \/ \E response \in Responses : RegenReturns(response)
    \/ RegenRaises

Spec == Init /\ [][Next]_vars

\* the same with process restarts: the cache file outlives each call
NextRestart ==
    \/ Next
    \/ \E batch \in Batches, max \in 0..MaxIter : Restart(batch, max)

SpecRestart == Init /\ [][NextRestart]_vars

\* rule batches large enough for a pass to record more than ten issues:
\* each rule has a syntax error or is clean
LargeBatches == UNION {[1..n -> {BadSyntaxRule, CleanRule}] : n \in 0..MaxIssues}

\* validate_and_refine_rules called with a large batch and two iterations
CallLarge ==
    /\ pc = "idle"
    /\ \E batch \in LargeBatches : Call(batch, 2)

NextFeedback ==
    \/ CallLarge
    \/ ValidateRule
    \/ \E research \in ResearchOutcomes(field_results.needs_research),
          written \in [SeqRange(field_results.needs_research) -> WriteOutcomes] :
            ResearchReturns(research, written)
    \/ ResearchRaises
    \/ EndPass
    \/ \E response \in Responses : RegenReturns(response)
    \/ RegenRaises

SpecFeedback == Init /\ [][NextFeedback]_vars

\* the field_names lists validate_fields is called with (repeats allowed)
FieldBatches == UNION {[1..n -> FieldNames] : n \in 0..MaxBatch}

(***************************************************************************)
(* ECSFieldValidator used directly: a client that has constructed a        *)
(* validator and calls its methods, one action per method.                 *)
(***************************************************************************)
InitCache ==
    /\ pc = "api"
    /\ Fresh
    /\ EvalIdle
    /\ DiagIdle
    /\ OthersIdle

ApiFrame ==
    UNCHANGED <<pc, runs, max_iterations, rules_data, iteration, rule_idx,
                validation_issues, all_valid, iteration_history, field_results,
                research_results, refinement_feedback, refined_response, result,
                regen_calls, researched, evars, dvars, xvars>>

\* validate_ecs_fields.py lines 75-85: cache_field(field_name, field_info)
ApiCacheField(field_name, field_info, written) ==
    /\ pc = "api"
    /\ last_call.count < MaxApiCalls
    /\ dynamic_cache' = cache_field(dynamic_cache, field_name, field_info)
    /\ cache_file' = persist_cache(cache_file, dynamic_cache', written)
    /\ last_call' = [op |-> "cache_field", field |-> field_name, batch |-> <<>>,
                     info |-> field_info, count |-> last_call.count + 1]
    /\ ApiFrame

\* validate_ecs_fields.py lines 26-46: validate_field(field_name)
ApiValidateField(field_name) ==
    /\ pc = "api"
    /\ last_call.count < MaxApiCalls
    /\ dynamic_cache' = validate_field_cache(dynamic_cache, field_name)
    /\ last_call' = [op |-> "validate_field", field |-> field_name, batch |-> <<>>,
                     info |-> validate_field(dynamic_cache, field_name),
                     count |-> last_call.count + 1]
    /\ UNCHANGED cache_file
    /\ ApiFrame

\* validate_ecs_fields.py lines 48-73: validate_fields(field_names)
ApiValidateFields(field_names) ==
    /\ pc = "api"
    /\ last_call.count < MaxApiCalls
    /\ field_results' = validate_fields(dynamic_cache, field_names)
    /\ dynamic_cache' = validate_fields_cache(dynamic_cache, field_names)
    /\ last_call' = [op |-> "validate_fields", field |-> "none", batch |-> field_names,
                     info |-> NoInfo, count |-> last_call.count + 1]
    /\ UNCHANGED <<pc, runs, max_iterations, rules_data, iteration, rule_idx,
                   validation_issues, all_valid, iteration_history,
                   research_results, refinement_feedback, refined_response, result,
                   regen_calls, researched, cache_file, evars, dvars, xvars>>

\* validate_ecs_fields.py lines 12-24: a new ECSFieldValidator() after a restart
ApiNewValidator ==
    /\ pc = "api"
    /\ last_call.count < MaxApiCalls
    /\ dynamic_cache' = load_cache(cache_file)
    /\ last_call' = [op |-> "init", field |-> "none", batch |-> <<>>, info |-> NoInfo,
                     count |-> last_call.count + 1]
    /\ UNCHANGED cache_file
    /\ ApiFrame

NextCache ==
    \/ \E f \in FieldNames, info \in ResearchInfo, written \in WriteOutcomes :
          ApiCacheField(f, info, written)
    \/ \E f \in FieldNames : ApiValidateField(f)
    \/ \E b \in FieldBatches : ApiValidateFields(b)
    \/ ApiNewValidator

SpecCache == InitCache /\ [][NextCache]_vars

(***************************************************************************)
(* The run without refinement (main, lines 602-604), for one rule file:    *)
(* ingest_test_payloads, execute_detection_rules, calculate_metrics.       *)
(***************************************************************************)
InitMetrics ==
    /\ pc = "ingest_payloads"
    /\ Fresh
    /\ DiagIdle
    /\ OthersIdle
    /\ test_cases \in CaseLists
    /\ test_catalog = EmptyCatalog
    /\ matched_ids = {}
    /\ confusion = NoConfusion
    /\ metrics = NoMetrics
    /\ refinement_iteration = 0
    /\ max_refinement_attempts = 0
    /\ fix_target = "none"
    /\ eval_result = NoEvalResult

MetricsFrame ==
    UNCHANGED <<runs, max_iterations, rules_data, iteration, rule_idx,
                validation_issues, all_valid, iteration_history, field_results,
                research_results, refinement_feedback, refined_response, result,
                dynamic_cache, cache_file, regen_calls, researched, last_call, dvars, xvars,
                test_cases, refinement_iteration, max_refinement_attempts,
                fix_target, eval_result>>

\* lines 97-142: a rule without test cases gets no catalog entry
IngestTestPayloads ==
    /\ pc = "ingest_payloads"
    /\ test_catalog' = IF test_cases = <<>> THEN EmptyCatalog
                       ELSE ingest(test_cases, 0, EmptyCatalog)
    /\ pc' = "execute_rules"
    /\ UNCHANGED <<matched_ids, confusion, metrics>>
    /\ MetricsFrame

\* lines 145-175: the search returned hits; matched is the set of their
\* _test_id, documents of this rule or of another rule in the index
ExecuteDetectionRules(matched) ==
    /\ pc = "execute_rules"
    /\ matched_ids' = matched
    /\ pc' = "calculate_metrics"
    /\ UNCHANGED <<test_catalog, confusion, metrics>>
    /\ MetricsFrame

\* lines 176-178: the search raised; matched_ids is the empty list
ExecuteDetectionRulesRaises ==
    /\ pc = "execute_rules"
    /\ matched_ids' = {}
    /\ pc' = "calculate_metrics"
    /\ UNCHANGED <<test_catalog, confusion, metrics>>
    /\ MetricsFrame

\* lines 183-241: metrics of the rule when the catalog has an entry for it
CalculateMetrics ==
    /\ pc = "calculate_metrics"
    /\ IF test_cases = <<>>
       THEN /\ pc' = "reported"
            /\ UNCHANGED <<confusion, metrics>>
       ELSE /\ confusion' = evaluate(test_catalog, matched_ids)
            /\ IF EvaluateRaised(confusion')
               THEN pc' = "eval_raised" /\ UNCHANGED metrics
               ELSE pc' = "reported" /\ metrics' = metrics_dict(confusion')
    /\ UNCHANGED <<test_catalog, matched_ids>>
    /\ MetricsFrame

NextMetrics ==
    \/ IngestTestPayloads
    \/ \E matched \in SUBSET (DocIds(test_catalog) \cup {StaleId}) :
          ExecuteDetectionRules(matched)
    \/ ExecuteDetectionRulesRaises
    \/ CalculateMetrics

SpecMetrics == InitMetrics /\ [][NextMetrics]_vars

(***************************************************************************)
(* State machine of test_single_rule_with_refinement: one action per       *)
(* stretch of code between two awaits (should_refine_query_or_tests,       *)
(* refine_rule_with_feedback), for each outcome of the calls in it.        *)
(***************************************************************************)
\* the rule file and the budget the function is called with
InitEval ==
    /\ pc = "evaluate"
    /\ Fresh
    /\ DiagIdle
    /\ DriverIdle
    /\ LuceneIdle
    /\ HistoryIdle
    /\ RegenIdle
    /\ TtpIdle
    /\ test_cases \in LoopCaseLists
    /\ rule_files = (original_file :> RuleVersion(0, test_cases))
    /\ current_rule_path = original_file
    /\ decision_response = NoClassification
    /\ refine_call = NoRefineCall
    /\ max_refinement_attempts \in 0..MaxAttempts
    /\ test_catalog = EmptyCatalog
    /\ matched_ids = {}
    /\ confusion = NoConfusion
    /\ metrics = NoMetrics
    /\ refinement_iteration = 0
    /\ fix_target = "none"
    /\ eval_result = NoEvalResult

EvalFrame ==
    UNCHANGED <<runs, max_iterations, rules_data, iteration, rule_idx,
                validation_issues, all_valid, iteration_history, field_results,
                research_results, refinement_feedback, refined_response, result,
                dynamic_cache, cache_file, regen_calls, researched, last_call, dvars,
                rvars, lvars, hvars, ovars>>

\* lines 288-432, one run of the loop body up to the first await: load the
\* rule version, build the catalog, index the payloads, search, compute the
\* metrics, then return on pass or on the last attempt, else go on to the
\* refinement.  matched is set(query_results['matched_ids']).
EvaluateWith(catalog, matched) ==
    LET c == evaluate(catalog, matched)
        m == metrics_dict(c)
    IN  /\ pc = "evaluate"
        /\ test_catalog' = catalog
        /\ matched_ids' = matched
        /\ confusion' = c
        /\ IF EvaluateRaised(c)
           THEN /\ pc' = "eval_raised"
                /\ UNCHANGED <<metrics, eval_result, rule_files>>
           ELSE /\ metrics' = m
                /\ IF m.pass_threshold
                   THEN /\ pc' = "eval_done"
                        /\ rule_files' = write_back(rule_files, current_rule_path,
                                                    refinement_iteration)
                        /\ eval_result' = EvalResult(m, refinement_iteration > 0,
                                                     refinement_iteration)
                   ELSE IF refinement_iteration >= max_refinement_attempts
                   THEN /\ pc' = "eval_done"
                        /\ eval_result' = EvalResult(m, FALSE, refinement_iteration)
                        /\ UNCHANGED rule_files
                   ELSE /\ pc' = "classify"
                        /\ UNCHANGED <<eval_result, rule_files>>
        /\ UNCHANGED <<test_cases, refinement_iteration, max_refinement_attempts,
                       fix_target, current_rule_path, decision_response,
                       refine_call>>
        /\ EvalFrame

\* lines 323-336: the search returned hits; matched is the set of their
\* _test_id, documents of this version or left by an earlier one
SearchReturns ==
    LET catalog == ingest(test_cases, 0, EmptyCatalog)
    IN  \E matched \in SUBSET (DocIds(catalog) \cup {StaleId}) :
            EvaluateWith(catalog, matched)

\* lines 337-338: the search raised; matched_ids is the empty list
SearchRaises == EvaluateWith(ingest(test_cases, 0, EmptyCatalog), {})

\* line 440: should_refine_query_or_tests returned; r is what its
\* generate_content call returned
ClassifyReturns(r) ==
    /\ pc = "classify"
    /\ decision_response' = r
    /\ fix_target' = should_refine_query_or_tests(r)
    /\ refine_call' = refine_request(rule_files[current_rule_path],
                                     feedback(confusion, test_catalog, matched_ids),
                                     fix_target')
    /\ pc' = "refine"
    /\ UNCHANGED <<test_cases, test_catalog, matched_ids, confusion, metrics,
                   refinement_iteration, max_refinement_attempts, eval_result,
                   rule_files, current_rule_path>>
    /\ EvalFrame

\* line 440: its generate_content call raised (it is outside the try block)
ClassifyRaises ==
    /\ pc = "classify"
    /\ pc' = "eval_raised"
    /\ UNCHANGED <<evars, fvars>>
    /\ EvalFrame

\* the regeneration is requested without waiting for the classification
RefineFailsUnclassified ==
    /\ pc \in {"classify", "refine"}
    /\ eval_result' = EvalResult(metrics, FALSE, refinement_iteration)
    /\ pc' = "eval_done"
    /\ UNCHANGED <<test_cases, test_catalog, matched_ids, confusion, metrics,
                   refinement_iteration, max_refinement_attempts, fix_target, fvars>>
    /\ EvalFrame

\* lines 444-461: refine_rule_with_feedback returned None
RefineFails ==
    /\ pc = "refine"
    /\ eval_result' = EvalResult(metrics, FALSE, refinement_iteration)
    /\ pc' = "eval_done"
    /\ UNCHANGED <<test_cases, test_catalog, matched_ids, confusion, metrics,
                   refinement_iteration, max_refinement_attempts, fix_target, fvars>>
    /\ EvalFrame

\* lines 444-469 and 284-296: it returned a rule; the rule is saved as a new
\* version and the next iteration loads it.  The locals of the finished
\* iteration are dead: each is assigned again before it is read.
RefineReturns(cases) ==
    /\ pc = "refine"
    /\ rule_files' = write_file(rule_files, temp_refined(refinement_iteration),
                                RuleVersion(refinement_iteration + 1, cases))
    /\ current_rule_path' = temp_refined(refinement_iteration)
    /\ test_cases' = cases
    /\ refinement_iteration' = refinement_iteration + 1
    /\ pc' = "evaluate"
    /\ test_catalog' = EmptyCatalog
    /\ matched_ids' = {}
    /\ confusion' = NoConfusion
    /\ metrics' = NoMetrics
    /\ fix_target' = "none"
    /\ decision_response' = NoClassification
    /\ refine_call' = NoRefineCall
    /\ UNCHANGED <<max_refinement_attempts, eval_result>>
    /\ EvalFrame

NextEval ==
    \/ SearchReturns
    \/ SearchRaises
    \/ \E r \in ClassificationResponses : ClassifyReturns(r)
    \/ ClassifyRaises
    \/ RefineFails
    \/ \E cases \in RefinedCaseLists : RefineReturns(cases)

SpecEval == InitEval /\ [][NextEval]_vars

(***************************************************************************)
(* diagnose_failure applied to every metrics and payload state.            *)
(***************************************************************************)
InitDiag ==
    /\ pc = "diagnose"
    /\ Fresh
    /\ EvalIdle
    /\ diag_metrics \in MetricsInputs
    /\ rule_test_dir \in TestDirs
    /\ diagnosis = NoDiagnosis
    /\ OthersIdle

\* refine_detections.py lines 22-101
Diagnose ==
    /\ pc = "diagnose"
    /\ diagnosis' = diagnose_failure(diag_metrics, rule_test_dir)
    /\ pc' = "diagnosed"
    /\ UNCHANGED <<runs, max_iterations, rules_data, iteration, rule_idx,
                   validation_issues, all_valid, iteration_history, field_results,
                   research_results, refinement_feedback, refined_response, result,
                   dynamic_cache, cache_file, regen_calls, researched, last_call,
                   evars, diag_metrics, rule_test_dir, xvars>>

NextDiag == Diagnose

SpecDiag == InitDiag /\ [][NextDiag]_vars

(***************************************************************************)
(* refine_detections.main: one run of the refinement driver over the       *)
(* entries of the results file.  An entry and the state of its test        *)
(* directory are read when the loop reaches them.                          *)
(***************************************************************************)
InitRefine ==
    /\ pc = "main"
    /\ Fresh
    /\ EvalIdle
    /\ DiagIdle
    /\ OthersIdle

RefineFrame ==
    UNCHANGED <<runs, max_iterations, rules_data, iteration, rule_idx,
                validation_issues, all_valid, iteration_history, field_results,
                research_results, refinement_feedback, refined_response, result,
                dynamic_cache, cache_file, regen_calls, researched, last_call,
                evars>>

\* lines 163-165: the results file does not exist
ResultsMissing ==
    /\ pc = "main"
    /\ pc' = "returned_1"
    /\ RefineFrame
    /\ UNCHANGED <<dvars, xvars>>

\* lines 172-178: the integration test was skipped
ResultsSkipped ==
    /\ pc = "main"
    /\ pc' = "returned_0"
    /\ RefineFrame
    /\ UNCHANGED <<dvars, xvars>>

\* lines 172-182: the results are loaded and the loop begins
LoadResults ==
    /\ pc = "main"
    /\ refinements' = <<>>
    /\ total_fixed' = 0
    /\ pc' = "next_rule"
    /\ RefineFrame
    /\ UNCHANGED <<dvars, rule_id, diagnosed, lvars, fvars, hvars, ovars>>

\* lines 184-189: the next item of results.items() has an f1_score of at
\* least 0.75 and is passed over
PassedRule(entry) ==
    /\ pc = "next_rule"
    /\ rule_id < MaxResults
    /\ FloatGeq(entry.f1_score, Ratio(75, 100))
    /\ rule_id' = rule_id + 1
    /\ diag_metrics' = entry
    /\ diagnosis' = NoDiagnosis
    /\ pc' = "next_rule"
    /\ RefineFrame
    /\ UNCHANGED <<rule_test_dir, refinements, total_fixed, diagnosed, lvars, fvars, hvars, ovars>>

\* lines 184-192: the next item of results.items() is a failed rule, whose
\* test directory is in state dir
FailedRule(entry, dir) ==
    /\ pc = "next_rule"
    /\ rule_id < MaxResults
    /\ ~FloatGeq(entry.f1_score, Ratio(75, 100))
    /\ rule_id' = rule_id + 1
    /\ diag_metrics' = entry
    /\ rule_test_dir' = dir
    /\ diagnosis' = NoDiagnosis
    /\ pc' = "failed_rule"
    /\ RefineFrame
    /\ UNCHANGED <<refinements, total_fixed, diagnosed, lvars, fvars, hvars, ovars>>

\* lines 194-226: the failed rule is diagnosed and the fix is applied
DiagnoseAndFix ==
    /\ pc = "failed_rule"
    /\ LET d == diagnose_failure(diag_metrics, rule_test_dir)
           c == convert_test_payloads_to_ecs(rule_test_dir)
       IN  /\ diagnosis' = d
           /\ diagnosed' = Append(diagnosed, rule_id)
           /\ IF applies_fix(d.action)
              THEN /\ rule_test_dir' = c.dir
                   /\ total_fixed' = total_fixed + 1
                   /\ refinements' = Append(refinements,
                          [rule_id |-> rule_id, issue |-> d.issue,
                           action |-> d.action, confidence |-> d.confidence,
                           payloads_modified |-> c.converted_count])
              ELSE UNCHANGED <<rule_test_dir, total_fixed, refinements>>
    /\ pc' = "next_rule"
    /\ RefineFrame
    /\ UNCHANGED <<diag_metrics, rule_id, lvars, fvars, hvars, ovars>>

\* lines 228-254: the items are exhausted, the report is saved
SaveReport ==
    /\ pc = "next_rule"
    /\ pc' = IF total_fixed > 0 THEN "returned_0" ELSE "returned_1"
    /\ RefineFrame
    /\ UNCHANGED <<dvars, xvars>>

NextRefine ==
    \/ ResultsMissing
    \/ ResultsSkipped
    \/ LoadResults
    \/ \E entry \in ResultEntries : PassedRule(entry)
    \/ \E entry \in ResultEntries, dir \in DriverDirs : FailedRule(entry, dir)
    \/ DiagnoseAndFix
    \/ SaveReport

SpecRefine == InitRefine /\ [][NextRefine]_vars

(***************************************************************************)
(* validate_lucene_query and extract_fields_from_query applied to a query, *)
(* as iterative_validator.py calls them (lines 47 and 60).                 *)
(***************************************************************************)
InitLucene ==
    /\ pc = "validate_query"
    /\ Fresh
    /\ EvalIdle
    /\ DiagIdle
    /\ DriverIdle
    /\ FilesIdle
    /\ HistoryIdle
    /\ RegenIdle
    /\ TtpIdle
    /\ query \in Queries
    /\ lucene_result = NoLuceneResult
    /\ fields = <<>>

LuceneFrame ==
    UNCHANGED <<runs, max_iterations, rules_data, iteration, rule_idx,
                validation_issues, all_valid, iteration_history, field_results,
                research_results, refinement_feedback, refined_response, result,
                dynamic_cache, cache_file, regen_calls, researched, last_call,
                evars, dvars, rvars, fvars, hvars, ovars>>

\* validate_lucene.py lines 9-19: luqum parses the query
LuqumParses ==
    /\ pc = "validate_query"
    /\ lucene_result' = LuceneResult(TRUE, <<>>, "Valid Lucene syntax")
    /\ pc' = "parsed"
    /\ LuceneFrame
    /\ UNCHANGED <<query, fields>>

\* lines 25-49: luqum raises on the query
LuqumRaises ==
    /\ pc = "validate_query"
    /\ lucene_result' = LuceneResult(FALSE, <<LuceneError("parse error", 0, 0)>>, "none")
    /\ pc' = "parse_error"
    /\ LuceneFrame
    /\ UNCHANGED <<query, fields>>

\* lines 21-23 and 51-80: luqum is not installed
BasicLuceneValidation ==
    /\ pc = "validate_query"
    /\ lucene_result' = basic_lucene_validation(query)
    /\ pc' = "basic_validated"
    /\ LuceneFrame
    /\ UNCHANGED <<query, fields>>

\* lines 82-91
ExtractFields ==
    /\ pc \in {"parsed", "parse_error", "basic_validated"}
    /\ fields' = extract_fields_from_query(query)
    /\ pc' = "extracted"
    /\ LuceneFrame
    /\ UNCHANGED <<query, lucene_result>>

NextLucene ==
    \/ LuqumParses
    \/ LuqumRaises
    \/ BasicLuceneValidation
    \/ ExtractFields

SpecLucene == InitLucene /\ [][NextLucene]_vars

(***************************************************************************)
(* refine_rule_with_feedback (per_rule_refinement.py lines 15-173) called  *)
(* with a rule that has a name: the prompt is chosen by the refinement     *)
(* type, then generate_content is tried up to max_attempts times.          *)
(***************************************************************************)
\* the refinement types of the docstring, and one that is none of them
RefinementTypes == {"validation", "integration", "judge", "other"}

\* lines 36, 62, 104: the branches of the prompt selection
known_type(type) == type \in {"validation", "integration", "judge"}

\* what yaml.safe_load makes of a response it can load: a mapping, None
\* (an empty document) or a scalar
ParsedValues == {"rule", "None", "scalar"}

\* the value refine_rule_with_feedback returns, by the statement returning it
Returned(kind, rule) == [kind |-> kind, rule |-> rule]

\* the loop runs once more than max_attempts allows
in_rangeInclusive(k, stop) == k <= stop

\* for attempt in range(max_attempts)
in_range(k, stop) == k < stop

InitRegen ==
    /\ pc = "refine_entry"
    /\ Fresh
    /\ EvalIdle
    /\ DiagIdle
    /\ DriverIdle
    /\ LuceneIdle
    /\ FilesIdle
    /\ HistoryIdle
    /\ TtpIdle
    /\ refinement_type \in RefinementTypes
    /\ max_attempts \in 0..MaxRetries
    /\ attempt = 0
    /\ generate_calls = 0
    /\ refined_rule = NoReturn

RegenFrame ==
    UNCHANGED <<runs, max_iterations, rules_data, iteration, rule_idx,
                validation_issues, all_valid, iteration_history, field_results,
                research_results, refinement_feedback, refined_response, result,
                dynamic_cache, cache_file, regen_calls, researched, last_call,
                evars, dvars, rvars, lvars, fvars, hvars, tvars,
                refinement_type, max_attempts>>

\* lines 32-130: the prompt is built, or the type is unknown
BuildPrompt ==
    /\ pc = "refine_entry"
    /\ IF known_type(refinement_type)
       THEN pc' = "for_attempt" /\ UNCHANGED refined_rule
       ELSE pc' = "refine_raised" /\ refined_rule' = Returned("ValueError", "none")
    /\ UNCHANGED <<attempt, generate_calls>>
    /\ RegenFrame

\* lines 133-144 and 173: the loop goes on with generate_content, or it is
\* exhausted and None is returned
ForAttempt ==
    /\ pc = "for_attempt"
    /\ IF in_range(attempt, max_attempts)
       THEN /\ generate_calls' = generate_calls + 1
            /\ pc' = "generate_content"
            /\ UNCHANGED refined_rule
       ELSE /\ refined_rule' = Returned("line_173", "None")
            /\ pc' = "refine_returned"
            /\ UNCHANGED generate_calls
    /\ UNCHANGED attempt
    /\ RegenFrame

\* lines 140-164: generate_content returned a text that yaml.safe_load
\* loads; the loaded value is returned
GenerateReturns(loaded) ==
    /\ pc = "generate_content"
    /\ refined_rule' = Returned("line_164", loaded)
    /\ pc' = "refine_returned"
    /\ UNCHANGED <<attempt, generate_calls>>
    /\ RegenFrame

\* lines 166-171: generate_content raised, or its text is None, or
\* yaml.safe_load raised
GenerateFails ==
    /\ pc = "generate_content"
    /\ IF attempt = max_attempts - 1
       THEN /\ refined_rule' = Returned("line_170", "None")
            /\ pc' = "refine_returned"
       ELSE /\ pc' = "sleep"
            /\ UNCHANGED refined_rule
    /\ UNCHANGED <<attempt, generate_calls>>
    /\ RegenFrame

\* line 171: asyncio.sleep returned; the next attempt begins
SleepReturns ==
    /\ pc = "sleep"
    /\ attempt' = attempt + 1
    /\ pc' = "for_attempt"
    /\ UNCHANGED <<generate_calls, refined_rule>>
    /\ RegenFrame

NextRegen ==
    \/ BuildPrompt
    \/ ForAttempt
    \/ \E loaded \in ParsedValues : GenerateReturns(loaded)
    \/ GenerateFails
    \/ SleepReturns

SpecRegen == InitRegen /\ [][NextRegen]_vars

(***************************************************************************)
(* validate_all_rules and validate_rule_test_cases                         *)
(* (ttp_intent_validator.py lines 154-252).  A rule is the number of its   *)
(* test cases, a test case its position 1..n in the rule, and a task of    *)
(* validate_test_payload is in flight from its creation by the gather call *)
(* until it returns; it catches every exception of its collaborator.       *)
(***************************************************************************)
\* line 158: max_concurrent: int = 2
DefaultMaxConcurrent == 2

\* validation['validation_result']
ValidationResults == {"VALID", "INVALID", "ERROR"}

\* a batch that takes one test case more than max_concurrent
batchOneMore(n, i, size) == {k \in 1..n : i < k /\ k <= i + size + 1}

\* line 184: test_cases[i:i + max_concurrent], as the positions in it
batch(n, i, size) == {k \in 1..n : i < k /\ k <= i + size}

\* lines 168-180: results before the first batch
NewTtpResults(n) ==
    [total_tests |-> n, validations |-> <<>>, valid |-> 0, invalid |-> 0, errors |-> 0]

\* lines 194-203 for one test case: the validation is stored and counted
store_validation(res, k, validation) ==
    [res EXCEPT !.validations = Append(@, k),
                !.valid = IF validation = "VALID" THEN @ + 1 ELSE @,
                !.invalid = IF validation = "INVALID" THEN @ + 1 ELSE @,
                !.errors = IF validation \notin {"VALID", "INVALID"} THEN @ + 1 ELSE @]

\* lines 194-216: for test_case, validation in zip(batch, batch_results),
\* from position k to position last
RECURSIVE store_batch(_, _, _, _)
store_batch(res, k, last, validations) ==
    IF k > last THEN res
    ELSE store_batch(store_validation(res, k, validations[k]), k + 1, last, validations)

InitTtp ==
    /\ pc = "validate_all_rules"
    /\ Fresh
    /\ EvalIdle
    /\ DiagIdle
    /\ DriverIdle
    /\ LuceneIdle
    /\ FilesIdle
    /\ HistoryIdle
    /\ RegenIdle
    /\ ttp_rules \in UNION {[1..n -> 0..MaxPayloads] : n \in 0..MaxRules}
    /\ max_concurrent \in 1..MaxConcurrent
    /\ max_concurrent # DefaultMaxConcurrent => Len(ttp_rules) = 1
    /\ rule_no = 0
    /\ batch_start = 0
    /\ in_flight = {}
    /\ batch_results = <<>>
    /\ results = NoTtpResults
    /\ all_results = <<>>

TtpFrame ==
    UNCHANGED <<runs, max_iterations, rules_data, iteration, rule_idx,
                validation_issues, all_valid, iteration_history, field_results,
                research_results, refinement_feedback, refined_response, result,
                dynamic_cache, cache_file, regen_calls, researched, last_call,
                evars, dvars, rvars, lvars, fvars, hvars, gvars,
                ttp_rules, max_concurrent>>

\* lines 250-252 and 162-180: the next rule is taken and
\* validate_rule_test_cases is entered, or the rules are exhausted
NextTtpRule ==
    /\ pc = "validate_all_rules"
    /\ IF rule_no < Len(ttp_rules)
       THEN /\ rule_no' = rule_no + 1
            /\ results' = NewTtpResults(ttp_rules[rule_no + 1])
            /\ batch_start' = 0
            /\ pc' = "for_batch"
       ELSE /\ pc' = "ttp_done"
            /\ UNCHANGED <<rule_no, results, batch_start>>
    /\ UNCHANGED <<in_flight, batch_results, all_results>>
    /\ TtpFrame

\* lines 183-191 and 222, 252-253: the tasks of the next batch are created
\* and awaited, or the test cases are exhausted and results is returned
StartBatch ==
    /\ pc = "for_batch"
    /\ IF batch_start < results.total_tests
       THEN /\ in_flight' = batch(results.total_tests, batch_start, max_concurrent)
            /\ pc' = "gather"
            /\ UNCHANGED all_results
       ELSE /\ all_results' = Append(all_results, results)
            /\ pc' = "validate_all_rules"
            /\ UNCHANGED in_flight
    /\ UNCHANGED <<rule_no, batch_start, batch_results, results>>
    /\ TtpFrame

\* lines 11-152: the task of test case k returns its validation
PayloadValidated(k, validation) ==
    /\ pc = "gather"
    /\ k \in in_flight
    /\ in_flight' = in_flight \ {k}
    /\ batch_results' = (k :> validation) @@ batch_results
    /\ UNCHANGED <<pc, rule_no, batch_start, results, all_results>>
    /\ TtpFrame

\* lines 191-220: every task has returned; the results are stored, then
\* the delay begins or the loop goes on
GatherReturns ==
    /\ pc = "gather"
    /\ in_flight = {}
    /\ results' = store_batch(results, batch_start + 1,
                              batch_start + Cardinality(DOMAIN batch_results),
                              batch_results)
    /\ batch_results' = <<>>
    /\ IF batch_start + max_concurrent < results.total_tests
       THEN pc' = "batch_sleep" /\ UNCHANGED batch_start
       ELSE pc' = "for_batch" /\ batch_start' = batch_start + max_concurrent
    /\ UNCHANGED <<rule_no, in_flight, all_results>>
    /\ TtpFrame

\* line 220: asyncio.sleep returned
BatchSleepReturns ==
    /\ pc = "batch_sleep"
    /\ batch_start' = batch_start + max_concurrent
    /\ pc' = "for_batch"
    /\ UNCHANGED <<rule_no, in_flight, batch_results, results, all_results>>
    /\ TtpFrame

NextTtp ==
    \/ NextTtpRule
    \/ StartBatch
    \/ \E k \in in_flight, validation \in ValidationResults :
          PayloadValidated(k, validation)
    \/ GatherReturns
    \/ BatchSleepReturns

SpecTtp == InitTtp /\ [][NextTtp]_vars

(***************************************************************************)
(* Properties.                                                             *)
(***************************************************************************)
Rules == GetRules(rules_data)

Last(s) == s[Len(s)]

PassDone == pc = "validate" /\ rule_idx > Len(Rules)

\* the last regeneration response was malformed: unparseable, or no 'rules'
Malformed ==
    \/ refined_response.status = "unparseable"
    \/ refined_response.status = "dict" /\ "rules" \notin refined_response.data.keys

\* C1: with max_iterations = N >= 1, when every pass found an issue and no
\* regeneration response was malformed, the call returns after exactly N
\* passes and N-1 regeneration calls, with validation_incomplete = true and
\* the issues of the last pass attached.
C1_ExhaustedAfterNPasses ==
    ( /\ pc = "done"
      /\ max_iterations >= 1
      /\ \A i \in 1..Len(iteration_history) : iteration_history[i].issues_count > 0
      /\ ~Malformed )
    => /\ Len(iteration_history) = max_iterations
       /\ regen_calls = max_iterations - 1
       /\ {"validation_incomplete", "remaining_issues"} \subseteq result.keys
       /\ result.validation_incomplete
       /\ result.remaining_issues = validation_issues
       /\ Len(result.remaining_issues) = Last(iteration_history).issues_count
       /\ result.remaining_issues # <<>>

C1_Witness ==
    /\ pc = "done"
    /\ max_iterations = 3
    /\ Len(iteration_history) = 3
    /\ regen_calls = 2
    /\ result.validation_incomplete
    /\ Len(result.remaining_issues) = 2

\* C2: validate_and_refine_rules never raises to its caller, whatever the
\* research and regeneration collaborators do.
C2_NeverRaises == pc # "raised"

\* C3: when the regenerated response parses but has no 'rules' key, the
\* returned result carries the issues of the failed pass.
C3_MissingRulesSurfacesIssues ==
    ( /\ pc = "done"
      /\ refined_response.status = "dict"
      /\ "rules" \notin refined_response.data.keys )
    => /\ "remaining_issues" \in result.keys
       /\ result.remaining_issues = validation_issues

\* C4: after a malformed regeneration response the loop ends at once (no
\* further pass, no further regeneration call) and the result returned
\* carries the iteration history and the issues collected so far.
C4_MalformedEndsLoopAndReports ==
    ( pc = "done" /\ Malformed )
    => /\ Len(iteration_history) = iteration + 1
       /\ regen_calls = iteration + 1
       /\ {"validation_history", "remaining_issues"} \subseteq result.keys
       /\ result.validation_history = iteration_history
       /\ result.remaining_issues = validation_issues

\* C5: when pass k records no issue, the call returns at that pass with the
\* rule set just validated, validation_iterations = k, a history of k
\* records, and no regeneration call after the k-1 made before it.
C5_ConvergedReturn ==
    ( /\ pc # "idle"
      /\ Len(iteration_history) = iteration + 1
      /\ Last(iteration_history).issues_count = 0 )
    => /\ pc = "done"
       /\ result.keys = {"rules", "cti_context", "total_rules",
                         "validation_iterations", "validation_history"}
       /\ result.rules = Rules
       /\ result.validation_iterations = iteration + 1
       /\ result.validation_history = iteration_history
       /\ Len(result.validation_history) = iteration + 1
       /\ regen_calls = iteration

C5_Witness ==
    /\ pc = "done"
    /\ result.validation_iterations = 2
    /\ "validation_incomplete" \notin result.keys
    /\ Len(result.rules) = 2
    /\ regen_calls = 1

IsPrefix(s, t) == Len(s) <= Len(t) /\ SubSeq(t, 1, Len(s)) = s

\* C6: a syntax error never aborts the pass: the failing rule gets exactly
\* one syntax issue, its fields are neither validated nor researched, the
\* next rule is checked next, issues of a pass are only ever added to, and a
\* pass is recorded only when every rule of the batch has been checked.
C6_SyntaxErrorsDoNotAbort ==
    [][ /\ ( /\ pc = "validate"
             /\ rule_idx <= Len(Rules)
             /\ ~Rules[rule_idx].lucene_valid )
           => /\ pc' = "validate"
              /\ rule_idx' = rule_idx + 1
              /\ validation_issues' =
                    Append(validation_issues, Issue(rule_idx, "syntax", "none"))
              /\ ~all_valid'
              /\ dynamic_cache' = dynamic_cache
              /\ field_results' = NoFieldResults
        /\ ( pc \in {"validate", "research"} /\ pc' \in {"validate", "research"} )
           => /\ IsPrefix(validation_issues, validation_issues')
              /\ rule_idx' \in {rule_idx, rule_idx + 1}
        /\ Len(iteration_history') > Len(iteration_history)
           => rule_idx = Len(Rules) + 1
      ]_vars

C6_Witness ==
    /\ PassDone
    /\ Len(Rules) = 2
    /\ validation_issues = <<Issue(1, "syntax", "none"),
                             Issue(2, "research", UnknownField)>>

\* C7: at the end of a pass, every field of a syntactically valid rule that
\* is neither in the schema nor cached has an issue in that pass, and the
\* pass is not valid.
C7_FieldErrorsSurface ==
    PassDone =>
        \A i \in 1..Len(Rules) : \A f \in SeqRange(Rules[i].fields) :
            ( /\ Rules[i].lucene_valid
              /\ f \notin DOMAIN schema
              /\ f \notin DOMAIN dynamic_cache )
            => /\ ~all_valid
               /\ \E j \in 1..Len(validation_issues) :
                     validation_issues[j].rule = i /\ validation_issues[j].field = f

\* C8: a research result is cached exactly when it has valid = true and
\* confidence high or medium; any other result is not cached, records an
\* invalid-field issue for the rule and makes the pass invalid; and nothing
\* else ever adds a field to the cache.
C8_CachedIffConfirmed ==
    [][ /\ ( pc = "research" /\ pc' = "validate" )
           => \A f \in DOMAIN research_results' :
                IF /\ research_results'[f].valid
                   /\ research_results'[f].confidence \in {"high", "medium"}
                THEN /\ f \in DOMAIN dynamic_cache'
                     /\ dynamic_cache'[f] = research_results'[f]
                     /\ \A j \in 1..Len(validation_issues') :
                           j > Len(validation_issues)
                           => validation_issues'[j].field # f
                ELSE /\ f \notin DOMAIN dynamic_cache'
                     /\ ~all_valid'
                     /\ \E j \in 1..Len(validation_issues') :
                           /\ j > Len(validation_issues)
                           /\ validation_issues'[j] = Issue(rule_idx, "research", f)
        /\ \A f \in DOMAIN dynamic_cache' \ DOMAIN dynamic_cache :
              /\ pc = "research"
              /\ f \in DOMAIN research_results'
              /\ research_results'[f].valid
              /\ research_results'[f].confidence \in {"high", "medium"}
      ]_vars

C8_Witness ==
    /\ pc = "validate"
    /\ UnknownField \in DOMAIN research_results
    /\ research_results[UnknownField].valid
    /\ research_results[UnknownField].confidence = "low"
    /\ UnknownField \notin DOMAIN dynamic_cache
    /\ validation_issues # <<>>

\* C9: a field cached after a research result with confidence high or
\* medium resolves as valid from then on, and is never researched again, in
\* the same process and in a validator constructed after a restart.
C9_CachedFieldsStayResolved ==
    \A f \in researched :
        pc \in {"validate", "research", "regen", "done", "raised"}
        => /\ validate_field(dynamic_cache, f).valid
           /\ pc = "research" => f \notin SeqRange(field_results.needs_research)

\* C10: cache_field is an upsert that is persisted: the entry of the field
\* is the value passed (replacing any earlier one), the other entries are
\* untouched, a call repeating the previous call's arguments changes
\* nothing, and after the call the cache file holds the in-memory cache.
C10_PersistedIdempotentUpsert ==
    [][ last_call'.op = "cache_field" /\ last_call'.count = last_call.count + 1
        => /\ DOMAIN dynamic_cache' = DOMAIN dynamic_cache \cup {last_call'.field}
           /\ dynamic_cache'[last_call'.field] = last_call'.info
           /\ \A f \in DOMAIN dynamic_cache :
                 f # last_call'.field => dynamic_cache'[f] = dynamic_cache[f]
           /\ ( /\ last_call.op = "cache_field"
                /\ last_call.field = last_call'.field
                /\ last_call.info = last_call'.info )
              => dynamic_cache' = dynamic_cache
           /\ cache_file'.state = "ok"
           /\ cache_file'.doc = dynamic_cache'
      ]_vars

\* C11: validate_field of a field of the canonical schema returns valid with
\* the schema's type, and the answer is the same whatever the dynamic cache
\* holds: it equals the answer under an empty cache and the answer the next
\* call would get.
C11_SchemaFieldsAlwaysValid ==
    (last_call.op = "validate_field" /\ last_call.field \in DOMAIN schema)
    => /\ last_call.info.valid
       /\ last_call.info.type = schema[last_call.field].type
       /\ last_call.info = validate_field(EmptyCache, last_call.field)
       /\ last_call.info = validate_field(dynamic_cache, last_call.field)

\* a schema field resolved while the cache holds a different entry for it
C11_Witness ==
    /\ last_call.op = "validate_field"
    /\ last_call.field = KnownField
    /\ KnownField \in DOMAIN dynamic_cache
    /\ dynamic_cache[KnownField].type # schema[KnownField].type
    /\ last_call.info.valid

\* C12: validate_field answers from the schema when the field is in the
\* schema (also when it is cached), from the cache entry (marked with source
\* dynamic_cache) when it is only cached, and with a needs-research result
\* when it is in neither.
C12_ThreeTierOrder ==
    [][ (last_call'.op = "validate_field" /\ last_call'.count = last_call.count + 1)
        => LET f == last_call'.field
               r == last_call'.info
           IN  IF f \in DOMAIN schema
               THEN /\ r.valid
                    /\ r.type = schema[f].type
                    /\ r.source # "dynamic_cache"
                    /\ ~r.needs_research
               ELSE IF f \in DOMAIN dynamic_cache
               THEN r = [dynamic_cache[f] EXCEPT !.source = "dynamic_cache"]
               ELSE ~r.valid /\ r.needs_research
      ]_vars

\* a field outside the schema answered from its cache entry
C12_Witness ==
    /\ last_call.op = "validate_field"
    /\ last_call.field = UnknownField
    /\ last_call.info.source = "dynamic_cache"
    /\ last_call.info.valid
    /\ last_call.info.type = "text"

\* C13: validate_fields partitions its input: every field of the input is in
\* exactly one of valid_fields, needs_research and invalid_fields, every
\* occurrence is reported once, and nothing outside the input is reported.
C13_BatchPartition ==
    last_call.op = "validate_fields"
    => LET b == last_call.batch
           v == SeqRange(field_results.valid_fields)
           n == SeqRange(field_results.needs_research)
           i == SeqRange(field_results.invalid_fields)
       IN  /\ v \cup n \cup i = SeqRange(b)
           /\ v \cap n = {}
           /\ v \cap i = {}
           /\ n \cap i = {}
           /\ Len(field_results.valid_fields) + Len(field_results.needs_research)
                 + Len(field_results.invalid_fields) = Len(b)

\* a batch split over two partitions, one of them invalid_fields
C13_Witness ==
    /\ last_call.op = "validate_fields"
    /\ Len(last_call.batch) = 2
    /\ field_results.valid_fields = <<KnownField>>
    /\ field_results.invalid_fields = <<UnknownField>>

\* the part of a cache entry that validate_fields classifies by
DecidingContents(cache) ==
    [f \in DOMAIN cache |-> [cache[f] EXCEPT !.source = "any"]]

\* C14: a validate_fields call that follows a validate_fields call on the
\* same batch returns the same partition, and returns what one more call
\* would return; validate_field and validate_fields leave the class of every
\* field, and the cache contents that decide validity, as they were.
C14_BatchRepeatable ==
    [][ ( /\ last_call'.count = last_call.count + 1
          /\ last_call'.op \in {"validate_field", "validate_fields"} )
        => /\ last_call'.op = "validate_fields"
                => validate_fields(dynamic_cache', last_call'.batch) = field_results'
           /\ ( /\ last_call.op = "validate_fields"
                /\ last_call'.op = "validate_fields"
                /\ last_call'.batch = last_call.batch )
              => field_results' = field_results
           /\ \A f \in FieldNames :
                 validate_fields(dynamic_cache', <<f>>) = validate_fields(dynamic_cache, <<f>>)
           /\ DecidingContents(dynamic_cache') = DecidingContents(dynamic_cache)
      ]_vars

\* a batch resolved from a cache entry that an earlier resolution has marked
C14_Witness ==
    /\ last_call.op = "validate_fields"
    /\ last_call.count = MaxApiCalls
    /\ UnknownField \in SeqRange(last_call.batch)
    /\ UnknownField \in DOMAIN dynamic_cache
    /\ dynamic_cache[UnknownField].source = "dynamic_cache"
    /\ field_results.valid_fields # <<>>

\* the ids the catalog expects for a test type
Expected(t) == SeqRange(test_catalog[t])

\* the metrics of the rule have been calculated
Reported == pc = "reported" /\ test_cases # <<>>

\* C15: true_positives is the number of matched ids expected as TP,
\* false_positives the number of matched ids expected as FP plus the number
\* expected as TN, false_negatives the number of expected TP ids less
\* true_positives; expected TP = {a, b}, FP = {c}, TN = {d}, FN = {} with
\* matched {a, b, c} gives TP = 2, FP = 1, FN = 0.
C15_ConfusionCounts ==
    Reported
    => /\ confusion.true_positives = Cardinality(matched_ids \cap Expected("TP"))
       /\ confusion.false_positives =
             Cardinality(matched_ids \cap Expected("FP"))
             + Cardinality(matched_ids \cap Expected("TN"))
       /\ confusion.false_negatives =
             Cardinality(Expected("TP")) - confusion.true_positives
       /\ metrics.tp_detected = confusion.true_positives
       /\ metrics.fp_triggered + metrics.tn_triggered = confusion.false_positives
       /\ ( /\ test_cases = <<"TP", "TP", "FP", "TN">>
            /\ matched_ids = {<<"TP", 0>>, <<"TP", 1>>, <<"FP", 2>>} )
          => /\ confusion.true_positives = 2
             /\ confusion.false_positives = 1
             /\ confusion.false_negatives = 0

\* the example of the claim, evaluated
C15_Witness ==
    /\ Reported
    /\ Cardinality(Expected("TP")) = 2
    /\ Cardinality(Expected("FP")) = 1
    /\ Cardinality(Expected("TN")) = 1
    /\ Expected("FN") = {}
    /\ matched_ids = Expected("TP") \cup Expected("FP")
    /\ confusion.true_positives = 2
    /\ confusion.false_positives = 1
    /\ confusion.false_negatives = 0

\* C16: pass_threshold holds exactly when both denominators are non-zero,
\* 5*TP >= 4*(TP+FP) (precision >= 0.80) and 10*TP >= 7*(TP+FN)
\* (recall >= 0.70); a rule with no true positive does not pass.
C16_PassThreshold ==
    Reported
    => LET tp == confusion.true_positives
           fp == confusion.false_positives
           fn == confusion.false_negatives
       IN  /\ metrics.pass_threshold
                <=> /\ tp + fp > 0
                    /\ tp + fn > 0
                    /\ 5 * tp >= 4 * (tp + fp)
                    /\ 10 * tp >= 7 * (tp + fn)
           /\ tp = 0 => ~metrics.pass_threshold

\* a rule that passes with a recall below the precision limit
C16_Witness ==
    /\ Reported
    /\ metrics.pass_threshold
    /\ confusion.true_positives = 3
    /\ confusion.false_negatives = 1
    /\ confusion.false_positives = 0

\* C17: no division of the metrics block raises; precision is 0 when
\* TP + FP = 0, recall is 0 when TP + FN = 0, and F1 is 0 when precision +
\* recall is 0.
C17_ZeroDenominators ==
    /\ pc # "eval_raised"
    /\ Reported
       => LET tp == confusion.true_positives
              fp == confusion.false_positives
              fn == confusion.false_negatives
          IN  /\ ~Raised(confusion.precision)
              /\ ~Raised(confusion.recall)
              /\ ~Raised(confusion.f1_score)
              /\ tp + fp = 0 => confusion.precision.n = 0 /\ metrics.precision = 0
              /\ tp + fn = 0 => confusion.recall.n = 0 /\ metrics.recall = 0
              /\ (confusion.precision.n = 0 /\ confusion.recall.n = 0)
                    => confusion.f1_score.n = 0 /\ metrics.f1_score = 0

\* no id matched and no test case expected as TP: all three denominators are 0
C17_Witness ==
    /\ Reported
    /\ matched_ids = {}
    /\ Expected("TP") = {}
    /\ metrics.precision = 0
    /\ metrics.recall = 0
    /\ metrics.f1_score = 0

\* C18: once the catalog is built, the four expected id sets are pairwise
\* disjoint and their sizes sum to the number of test cases of the rule;
\* the four totals of the metrics sum to it as well.
C18_ExpectedCoversCorpus ==
    /\ pc \in {"execute_rules", "calculate_metrics", "reported"}
       => /\ \A t, u \in TestTypes : t # u => Expected(t) \cap Expected(u) = {}
          /\ Cardinality(Expected("TP")) + Cardinality(Expected("FN"))
                + Cardinality(Expected("FP")) + Cardinality(Expected("TN"))
                = Len(test_cases)
    /\ Reported
       => metrics.tp_total + metrics.fn_total + metrics.fp_total + metrics.tn_total
             = Len(test_cases)

\* a corpus with two test cases of one type among others
C18_Witness ==
    /\ Reported
    /\ Len(test_cases) = MaxCases
    /\ metrics.fn_total = 2
    /\ metrics.tp_total = 1
    /\ metrics.tn_total = 1

\* the sample payload diagnose_failure reads has a Sysmon field name
LegacyShaped ==
    /\ rule_test_dir.exists
    /\ rule_test_dir.has_json
    /\ \E f \in rule_test_dir.sample.fields : f \in DOMAIN SYSMON_TO_ECS_MAPPING

\* it has a dotted field name or '@timestamp'
CanonicalShaped ==
    \E f \in rule_test_dir.sample.fields : Len(f) > 1 \/ f = <<"@timestamp">>

IsFieldMismatch ==
    /\ diagnosis.issue = "field_mismatch"
    /\ diagnosis.confidence = Ratio(95, 100)

\* C19 as stated: metrics TP = 0, FP = 5, FN = 0, TN = 0 and a sample
\* payload with Sysmon field names give field_mismatch with confidence 0.95.
C19_FieldMismatchWithFalsePositives ==
    ( /\ pc = "diagnosed"
      /\ diag_metrics = [tp |-> 0, fp |-> 5, tn |-> 0, fn |-> 0]
      /\ LegacyShaped
      /\ ~CanonicalShaped )
    => IsFieldMismatch

\* C19, amended: metrics TP = 0, FP = 0, FN = 0, TN = 0 and a sample payload
\* with a Sysmon field name and no dotted or '@timestamp' name give
\* field_mismatch with confidence 0.95.
C19_FieldMismatchExample ==
    ( /\ pc = "diagnosed"
      /\ diag_metrics = [tp |-> 0, fp |-> 0, tn |-> 0, fn |-> 0]
      /\ LegacyShaped
      /\ ~CanonicalShaped )
    => IsFieldMismatch

\* all counts 0 and a payload of a Sysmon name and a plain name, diagnosed
C19_Witness ==
    /\ pc = "diagnosed"
    /\ diag_metrics = [tp |-> 0, fp |-> 0, tn |-> 0, fn |-> 0]
    /\ rule_test_dir.has_json
    /\ rule_test_dir.sample.fields = {<<"Image">>, <<"host">>}
    /\ IsFieldMismatch

\* C20: with TP = 0, FP = 0 and a sample payload to read, the diagnosis is
\* field_mismatch (confidence 0.95, action convert_sysmon_to_ecs) exactly
\* when the payload has a Sysmon field name and no dotted or '@timestamp'
\* name; otherwise the later rules decide, which with TP = 0 is unknown.
C20_FieldMismatchIffLegacyOnly ==
    ( /\ pc = "diagnosed"
      /\ diag_metrics.tp = 0
      /\ diag_metrics.fp = 0
      /\ rule_test_dir.exists
      /\ rule_test_dir.has_json )
    => /\ diagnosis.issue = "field_mismatch" <=> (LegacyShaped /\ ~CanonicalShaped)
       /\ diagnosis.issue = "field_mismatch"
             => /\ diagnosis.confidence = Ratio(95, 100)
                /\ diagnosis.action = "convert_sysmon_to_ecs"
       /\ diagnosis.issue # "field_mismatch"
             => /\ diagnosis.issue = "unknown"
                /\ diagnosis.action = "manual_review"
                /\ diagnosis.confidence = ZeroFloat

\* a payload with a Sysmon name next to '@timestamp': not a field mismatch
C20_Witness ==
    /\ pc = "diagnosed"
    /\ diag_metrics.tp = 0
    /\ diag_metrics.fp = 0
    /\ diag_metrics.fn > 0
    /\ rule_test_dir.has_json
    /\ rule_test_dir.sample.fields = {<<"Image">>, <<"@timestamp">>}
    /\ diagnosis.issue = "unknown"

(***************************************************************************)
(* C21: for metrics with TP > 0 diagnose applies its rules in a fixed      *)
(* order and the first match wins: rule_too_strict (0.75) if FN > TP,      *)
(* otherwise rule_too_broad (0.80) if FP > TP, otherwise low_recall (0.70) *)
(* if TP / (TP + FN) < 0.70, otherwise unknown (0.0); with both FN > TP    *)
(* and FP > TP the result is rule_too_strict.  The recall comparison is    *)
(* stated over the integers: TP / (TP + FN) < 7/10 iff 10 TP < 7 (TP+FN).  *)
(***************************************************************************)
C21_FirstMatchWins ==
    (pc = "diagnosed" /\ diag_metrics.tp > 0) =>
        LET tp == diag_metrics.tp
            fp == diag_metrics.fp
            fn == diag_metrics.fn
        IN  /\ diagnosis.issue =
                   IF fn > tp THEN "rule_too_strict"
                   ELSE IF fp > tp THEN "rule_too_broad"
                   ELSE IF 10 * tp < 7 * (tp + fn) THEN "low_recall"
                   ELSE "unknown"
            /\ diagnosis.confidence =
                   IF fn > tp THEN Ratio(75, 100)
                   ELSE IF fp > tp THEN Ratio(80, 100)
                   ELSE IF 10 * tp < 7 * (tp + fn) THEN Ratio(70, 100)
                   ELSE Ratio(0, 1)

\* both FN > TP and FP > TP, and the diagnosis is rule_too_strict
C21_Witness ==
    /\ pc = "diagnosed"
    /\ diag_metrics.tp > 0
    /\ diag_metrics.fn > diag_metrics.tp
    /\ diag_metrics.fp > diag_metrics.tp
    /\ diagnosis.issue = "rule_too_strict"

(***************************************************************************)
(* C22: every Diagnosis returned by diagnose has an issue tag among the    *)
(* five taxonomy values and a confidence in [0, 1], whatever the metrics   *)
(* and the state of the test payloads.                                     *)
(***************************************************************************)
Taxonomy ==
    {"field_mismatch", "rule_too_strict", "rule_too_broad", "low_recall", "unknown"}

C22_TaxonomyAndConfidence ==
    pc = "diagnosed" =>
        /\ diagnosis.issue \in Taxonomy
        /\ FloatGeq(diagnosis.confidence, Ratio(0, 1))
        /\ FloatGeq(Ratio(1, 1), diagnosis.confidence)

(***************************************************************************)
(* C23: an unknown diagnosis is terminal for the rule in the run.  The     *)
(* driver calls diagnose_failure at most once per failed rule, and the     *)
(* step that diagnoses a rule as unknown applies no fix: the rule's test   *)
(* payloads, the list of refinements and the count of fixed rules are      *)
(* unchanged, and the loop moves on to the next entry of the results.      *)
(***************************************************************************)
DiagnosedOnce ==
    \A i, j \in 1..Len(diagnosed) : diagnosed[i] = diagnosed[j] => i = j

C23_UnknownIsTerminal ==
    [][ /\ DiagnosedOnce'
        /\ (pc = "failed_rule" /\ diagnosis'.issue = "unknown") =>
              /\ rule_test_dir' = rule_test_dir
              /\ refinements' = refinements
              /\ total_fixed' = total_fixed
              /\ rule_id' = rule_id
              /\ diagnosed' = Append(diagnosed, rule_id)
              /\ pc' = "next_rule"
        /\ (pc = "next_rule" /\ pc' = "failed_rule") => rule_id' = rule_id + 1
      ]_vars

\* a rule with convertible payloads was diagnosed unknown and the loop went on
C23_Witness ==
    /\ pc \in {"next_rule", "returned_1"}
    /\ diagnosis.issue = "unknown"
    /\ rule_test_dir.has_json
    /\ rule_test_dir.sample.wrapped
    /\ has_sysmon_fields(rule_test_dir.sample.fields)
    /\ diagnosed # <<>>
    /\ total_fixed = 0

(***************************************************************************)
(* C24: in basic_lucene_validation an 'Unbalanced parentheses' error is    *)
(* reported if and only if the number of '(' in the query differs from the *)
(* number of ')', and the error states both counts.                        *)
(***************************************************************************)
Occurrences(ch) == Cardinality({i \in 1..Len(query) : query[i] = ch})

UnbalancedErrors ==
    {i \in 1..Len(lucene_result.errors) :
        lucene_result.errors[i].kind = "Unbalanced parentheses"}

C24_ParenVerdictMirrorsCounts ==
    pc = "basic_validated" =>
        /\ (UnbalancedErrors # {}) <=> (Occurrences("(") # Occurrences(")"))
        /\ \A i \in UnbalancedErrors :
              /\ lucene_result.errors[i].open_count = Occurrences("(")
              /\ lucene_result.errors[i].close_count = Occurrences(")")
        /\ (Occurrences("(") # Occurrences(")")) => ~lucene_result.valid

\* more ')' than '(' and the error is reported
C24_Witness ==
    /\ pc = "basic_validated"
    /\ Occurrences(")") > Occurrences("(")
    /\ Occurrences("(") > 0
    /\ UnbalancedErrors # {}

(***************************************************************************)
(* C25: extract_fields_from_query returns the field names a query          *)
(* references, without repetition and in ascending order.  A reference is  *)
(* a maximal block of name characters that is followed, after optional     *)
(* blanks, by ':'; its name begins at the block's first letter or          *)
(* underscore.  The first test query yields exactly event.category and     *)
(* process.name.                                                           *)
(***************************************************************************)
\* the blocks [b, e] of the query: maximal runs of name characters
Blocks ==
    {be \in (1..Len(query)) \X (1..Len(query)) :
        /\ be[1] <= be[2]
        /\ \A i \in be[1]..be[2] : IsNameChar(query[i])
        /\ be[1] = 1 \/ ~IsNameChar(query[be[1] - 1])
        /\ be[2] = Len(query) \/ ~IsNameChar(query[be[2] + 1])}

\* a block is followed by blanks and then ':'
FollowedByColon(e) ==
    \E c \in (e + 1)..Len(query) :
        /\ query[c] = ":"
        /\ \A i \in (e + 1)..(c - 1) : IsSpace(query[i])

\* where the name of a block begins: at its first letter or underscore
NameStarts(be) ==
    {t \in be[1]..be[2] :
        /\ IsNameStart(query[t])
        /\ \A u \in be[1]..(t - 1) : ~IsNameStart(query[u])}

Referenced ==
    UNION {{SubSeq(query, t, be[2]) : t \in NameStarts(be)} :
              be \in {x \in Blocks : FollowedByColon(x[2])}}

EventCategory ==
    <<"e", "v", "e", "n", "t", ".", "c", "a", "t", "e", "g", "o", "r", "y">>

ProcessName ==
    <<"p", "r", "o", "c", "e", "s", "s", ".", "n", "a", "m", "e">>

C25_FieldsSortedAndDeduplicated ==
    pc = "extracted" =>
        /\ \A i \in 1..(Len(fields) - 1) : str_less(fields[i], fields[i + 1])
        /\ {fields[i] : i \in 1..Len(fields)} = Referenced
        /\ query = TestQuery1 => fields = <<EventCategory, ProcessName>>

\* a field referenced several times appears once
C25_Witness ==
    /\ pc = "extracted"
    /\ Len(findall(query, 1)) > Len(fields)
    /\ Len(fields) > 0

(***************************************************************************)
(* C26: during the per-rule refinement no rule version is mutated in       *)
(* place: a file that exists keeps its content, so every refined rule goes *)
(* to a new file and the original rule file is never overwritten.          *)
(***************************************************************************)
C26_NoVersionMutated ==
    [][\A f \in DOMAIN rule_files :
          f \in DOMAIN rule_files' /\ rule_files'[f] = rule_files[f]]_vars

(***************************************************************************)
(* C27: in the per-rule loop every evaluation that fails the threshold     *)
(* with refinement budget left goes on to the classification call, the     *)
(* regeneration call starts only when the classification has returned, and *)
(* a regeneration outcome is only seen after a completed classification of *)
(* the same iteration.                                                     *)
(***************************************************************************)
C27_ClassifiesBeforeRegenerating ==
    [][ /\ (/\ pc = "evaluate"
            /\ pc' # "eval_raised"
            /\ ~metrics'.pass_threshold
            /\ refinement_iteration < max_refinement_attempts) => pc' = "classify"
        /\ (pc' = "refine" /\ pc # "refine") =>
              (pc = "classify" /\ decision_response' # NoClassification)
        /\ (\/ refinement_iteration' # refinement_iteration
            \/ (pc' = "eval_done" /\ pc # "evaluate")) =>
              (pc = "refine" /\ decision_response # NoClassification)
      ]_vars

\* a regeneration was requested after a classification and returned nothing
C27_Witness ==
    /\ pc = "eval_done"
    /\ decision_response # NoClassification
    /\ ~eval_result.metrics.pass_threshold
    /\ refinement_iteration < max_refinement_attempts

(***************************************************************************)
(* C28: should_refine_query_or_tests always returns 'query', 'tests' or    *)
(* 'both', and it returns 'query' whenever the response cannot be parsed   *)
(* into a decision (the parse raises, or yields no dict, or a dict without *)
(* needs_fixing).                                                          *)
(***************************************************************************)
C28_DecisionIsATarget ==
    pc = "refine" =>
        /\ fix_target \in {"query", "tests", "both"}
        /\ (decision_response.parsed # "dict" \/ ~decision_response.has_key) =>
              fix_target = "query"

(***************************************************************************)
(* C29: the feedback handed to the regeneration collaborator holds at most *)
(* 10 issues: the first 10 issues of the current pass in the order they    *)
(* were recorded, and all of them when there are 10 or fewer.              *)
(***************************************************************************)
C29_FeedbackIsFirstTen ==
    pc = "regen" =>
        /\ Len(refinement_feedback) <= 10
        /\ Len(validation_issues) <= 10 => refinement_feedback = validation_issues
        /\ Len(validation_issues) > 10 => Len(refinement_feedback) = 10
        /\ \A i \in 1..Len(refinement_feedback) :
              refinement_feedback[i] = validation_issues[i]

\* a pass recorded more than ten issues and the regeneration was requested
C29_Witness ==
    /\ pc = "regen"
    /\ Len(validation_issues) > 10
    /\ Len(refinement_feedback) = 10

(***************************************************************************)
(* C30: a regenerated rule set with 'rules' but without a context block is *)
(* accepted: the loop synthesizes a default cti_context and goes on with   *)
(* the next validation pass, and every result returned afterwards carries  *)
(* that context.                                                           *)
(***************************************************************************)
\* the step in which generate_with_retry_func returns a response with
\* 'rules' and without 'cti_context'
ContextMissing ==
    /\ pc = "regen"
    /\ pc' # "raised"
    /\ refined_response'.status = "dict"
    /\ "rules" \in refined_response'.data.keys
    /\ "cti_context" \notin refined_response'.data.keys

\* the response is accepted with the default context and the next pass begins
AcceptedWithDefault ==
    /\ pc' = "validate"
    /\ iteration' = iteration + 1
    /\ GetRules(rules_data') = refined_response'.data.rules
    /\ "cti_context" \in rules_data'.keys
    /\ rules_data'.cti_context = "default"

\* the step returns a result that carries the default context
ReturnsDefaultContext ==
    /\ "cti_context" \in result'.keys
    /\ result'.cti_context = "default"

\* C30 as stated, for the results that the end of a validation pass returns:
\* once a default context was synthesized, each of them carries it
C30_EveryLaterResultHasDefault ==
    [][ /\ ContextMissing => AcceptedWithDefault
        /\ (context_defaulted /\ pc = "validate" /\ pc' = "done") => ReturnsDefaultContext
      ]_vars

\* C30, amended: the rule set is accepted with a default context and the
\* next pass begins, and every result returned from that rule set, before a
\* later regeneration response replaces it, carries that context
C30_ResultsOfThatRuleSetHaveDefault ==
    [][ /\ ContextMissing => AcceptedWithDefault
        /\ (/\ context_defaulted'
            /\ pc' = "done" /\ pc # "done"
            /\ GetContext(rules_data) = "default"
            /\ rules_data' = rules_data) => ReturnsDefaultContext
      ]_vars

\* a pass over a rule set with a synthesized context has returned its result
C30_Witness ==
    /\ pc = "done"
    /\ context_defaulted
    /\ GetContext(rules_data) = "default"
    /\ result.validation_iterations > 1
    /\ result.cti_context = "default"

(***************************************************************************)
(* C39: diagnose_failure returns low_recall only for metrics with TP > 0,  *)
(* FN <= TP, FP <= TP and TP / (TP + FN) < 0.70, that is only with a       *)
(* recall in [0.5, 0.7); every rule with TP > 0 and a recall below 0.5 is  *)
(* classified rule_too_strict.  Recall r = TP / (TP + FN): r < 0.7 iff     *)
(* 10 TP < 7 (TP + FN), and r >= 0.5 iff 2 TP >= TP + FN.                  *)
(***************************************************************************)
C39_LowRecallRange ==
    pc = "diagnosed" =>
        LET tp == diag_metrics.tp
            fp == diag_metrics.fp
            fn == diag_metrics.fn
        IN  /\ diagnosis.issue = "low_recall" =>
                  /\ tp > 0
                  /\ fn <= tp
                  /\ fp <= tp
                  /\ 10 * tp < 7 * (tp + fn)
                  /\ 2 * tp >= tp + fn
            /\ (tp > 0 /\ 2 * tp < tp + fn) => diagnosis.issue = "rule_too_strict"

\* low_recall at a recall of exactly 0.5
C39_Witness ==
    /\ pc = "diagnosed"
    /\ diagnosis.issue = "low_recall"
    /\ diag_metrics.fn = diag_metrics.tp

\* the matched set with the id added when absent and removed when present
Toggled(id) == IF id \in matched_ids THEN matched_ids \ {id} ELSE matched_ids \cup {id}

\* the ids whose match the claim calls irrelevant: expected as FN, or
\* expected by no set of this rule
Uncounted == Expected("FN") \cup {StaleId}

(***************************************************************************)
(* C38: the metrics depend only on matches of ids expected as TP, FP or    *)
(* TN: adding to or removing from the matched set an id of the expected FN *)
(* set, or of no expected set, leaves true_positives, false_positives,     *)
(* false_negatives, precision, recall and pass_threshold unchanged; of the *)
(* reported metrics only fn_missed changes, and only for an FN id.         *)
(***************************************************************************)
C38_UncountedMatchesAreIgnored ==
    Reported
    => \A id \in Uncounted :
          LET other == evaluate(test_catalog, Toggled(id))
          IN  /\ other.true_positives = confusion.true_positives
              /\ other.false_positives = confusion.false_positives
              /\ other.false_negatives = confusion.false_negatives
              /\ other.precision = confusion.precision
              /\ other.recall = confusion.recall
              /\ ~EvaluateRaised(other)
              /\ metrics_dict(other).pass_threshold = metrics.pass_threshold
              /\ [metrics_dict(other) EXCEPT !.fn_missed = metrics.fn_missed] = metrics
              /\ id \in Expected("FN") <=> other.fn_missed # confusion.fn_missed

\* a passing rule with a matched FN id and a matched foreign id
C38_Witness ==
    /\ Reported
    /\ metrics.pass_threshold
    /\ metrics.fn_missed = 1
    /\ StaleId \in matched_ids
    /\ confusion.true_positives = 2
    /\ confusion.false_negatives = 0

(***************************************************************************)
(* C32: the iteration history of validate_and_refine_rules is append-only: *)
(* after k validation passes it holds exactly k records with iteration     *)
(* indices 1..k in order, an appended record is never changed, a record    *)
(* has all_valid = true exactly when its issues_count is 0, and only the   *)
(* last record of a returned history can have all_valid = true.            *)
(***************************************************************************)
C32_HistoryAppendOnly ==
    [][ /\ runs' = runs
           => \/ iteration_history' = iteration_history
              \/ /\ pc = "validate"
                 /\ rule_idx > Len(Rules)
                 /\ Len(iteration_history') = Len(iteration_history) + 1
                 /\ IsPrefix(iteration_history, iteration_history')
                 /\ Len(iteration_history') = iteration + 1
        /\ pc' \in {"validate", "research"} => Len(iteration_history') = iteration'
        /\ \A i \in 1..Len(iteration_history') :
              /\ iteration_history'[i].iteration = i
              /\ iteration_history'[i].all_valid
                    <=> iteration_history'[i].issues_count = 0
              /\ i < Len(iteration_history') => ~iteration_history'[i].all_valid
        /\ (pc' = "done" /\ "validation_history" \in result'.keys)
              => result'.validation_history = iteration_history'
      ]_vars

\* a history of three records returned at convergence
C32_Witness ==
    /\ pc = "done"
    /\ "validation_history" \in result.keys
    /\ Len(result.validation_history) = 3
    /\ result.validation_history[1].issues_count = 2
    /\ result.validation_history[2].issues_count = 1
    /\ result.validation_history[3].all_valid

(***************************************************************************)
(* C37: after the field_mismatch fix (convert_test_payloads_to_ecs) has    *)
(* been applied to the test payloads of a rule, diagnose_failure on that   *)
(* rule with the same metrics does not return field_mismatch again.  The   *)
(* driver is at the next item right after the fix: diag_metrics are the    *)
(* metrics of the rule just fixed and rule_test_dir its directory as the   *)
(* conversion left it.                                                     *)
(***************************************************************************)
C37_FixIsNotRepeated ==
    ( /\ pc = "next_rule"
      /\ diagnosis.action = "convert_sysmon_to_ecs" )
    => diagnose_failure(diag_metrics, rule_test_dir).issue # "field_mismatch"

(***************************************************************************)
(* C34: test_single_rule_with_refinement leaves the original rule file     *)
(* unchanged on every run whose result has refined = false (pass without   *)
(* refinement, budget exhausted, regeneration failed); the file is         *)
(* overwritten only with the content of a refined version that passed the  *)
(* threshold.                                                              *)
(***************************************************************************)
C34_OriginalKeptUnlessRefined ==
    [][ /\ rule_files'[original_file] # rule_files[original_file]
           => /\ pc = "evaluate"
              /\ pc' = "eval_done"
              /\ eval_result'.refined
              /\ metrics'.pass_threshold
              /\ refinement_iteration > 0
              /\ current_rule_path # original_file
              /\ rule_files[current_rule_path].version = refinement_iteration
              /\ rule_files'[original_file] = rule_files[current_rule_path]
        /\ (pc' = "eval_done" /\ ~eval_result'.refined)
           => /\ rule_files'[original_file].version = 0
              /\ rule_files'[original_file] = rule_files[original_file]
      ]_vars

\* the second refined version passed and was written back
C34_Witness ==
    /\ pc = "eval_done"
    /\ eval_result.refined
    /\ rule_files[original_file].version = 2
    /\ rule_files[original_file] = rule_files[temp_refined(1)]
    /\ rule_files[temp_refined(0)].version = 1

(***************************************************************************)
(* C33: test_single_rule_with_refinement with max_refinement_attempts = N  *)
(* always ends with a result, after at most N + 1 evaluations and at most  *)
(* N regeneration requests, in one of three ways: the rule passes, the     *)
(* budget is exhausted, or a regeneration returns nothing; the result has  *)
(* refined = true exactly when the rule passed after at least one          *)
(* refinement.  The evaluation in progress or last made is number          *)
(* refinement_iteration + 1, and refinement_iteration regenerations have   *)
(* returned a rule.                                                        *)
(***************************************************************************)
C33_EndsInOneOfThreeWays ==
    /\ pc # "eval_raised"
    /\ refinement_iteration <= max_refinement_attempts
    /\ pc \in {"classify", "refine"} => refinement_iteration < max_refinement_attempts
    /\ pc = "eval_done"
       => /\ \/ eval_result.metrics.pass_threshold
             \/ refinement_iteration >= max_refinement_attempts
             \/ decision_response # NoClassification
          /\ eval_result.refined
                <=> (eval_result.metrics.pass_threshold /\ refinement_iteration > 0)
          /\ eval_result.refinement_iterations = refinement_iteration

\* the decisions should_refine_query_or_tests is documented to return
Targets == {"query", "tests", "both"}

(***************************************************************************)
(* C36: the value returned by should_refine_query_or_tests has no          *)
(* influence on the refinement: whichever of 'query', 'tests' and 'both'   *)
(* the decision is, refine_rule_with_feedback gets the same arguments, and *)
(* what follows its return (the result returned, or the version saved and  *)
(* evaluated next) is determined by the state without the decision.        *)
(***************************************************************************)
C36_DecisionHasNoInfluence ==
    [][ /\ (pc = "classify" /\ pc' = "refine")
           => \A d \in Targets :
                 refine_call' = refine_request(rule_files[current_rule_path],
                                    feedback(confusion, test_catalog, matched_ids), d)
        /\ pc = "refine"
           => \/ /\ pc' = "eval_done"
                 /\ eval_result' = EvalResult(metrics, FALSE, refinement_iteration)
                 /\ rule_files' = rule_files
              \/ /\ pc' = "evaluate"
                 /\ refinement_iteration' = refinement_iteration + 1
                 /\ current_rule_path' = temp_refined(refinement_iteration)
                 /\ rule_files' = write_file(rule_files, current_rule_path',
                                      RuleVersion(refinement_iteration', test_cases'))
                 /\ fix_target' = "none"
                 /\ eval_result' = eval_result
      ]_vars

\* a second regeneration requested after the decision 'tests'
C36_Witness ==
    /\ pc = "refine"
    /\ fix_target = "tests"
    /\ refinement_iteration = 1
    /\ refine_call.original_rule.version = 1
    /\ refine_call.refinement_type = "integration"

(***************************************************************************)
(* C35: refine_rule_with_feedback with a known refinement type makes at    *)
(* most max_attempts calls of generate_content, returns what the first     *)
(* attempt that succeeds has loaded without calling again, and returns     *)
(* None, never raising, when every attempt failed; with an unknown type it *)
(* raises ValueError before any call.                                      *)
(***************************************************************************)
C35_BoundedAttempts ==
    /\ generate_calls <= max_attempts
    /\ pc \in {"generate_content", "sleep"} => generate_calls = attempt + 1
    /\ known_type(refinement_type)
       => /\ pc # "refine_raised"
          /\ pc = "refine_returned"
             => \/ /\ refined_rule.kind = "line_164"
                   /\ refined_rule.rule \in ParsedValues
                   /\ generate_calls = attempt + 1
                \/ /\ refined_rule.kind \in {"line_170", "line_173"}
                   /\ refined_rule.rule = "None"
                   /\ generate_calls = max_attempts
    /\ ~known_type(refinement_type)
       => /\ generate_calls = 0
          /\ pc \in {"refine_entry", "refine_raised"}
          /\ pc = "refine_raised" => refined_rule.kind = "ValueError"

\* the first attempt failed and the second returned a rule
C35_Witness ==
    /\ pc = "refine_returned"
    /\ refinement_type = "integration"
    /\ refined_rule = Returned("line_164", "rule")
    /\ attempt = 1
    /\ generate_calls = 2

(***************************************************************************)
(* C31: concurrent external validation respects the fan-out cap: in        *)
(* validate_rule_test_cases at most max_concurrent (default 2) payload     *)
(* validations are in flight at any time, a batch starts only after every  *)
(* validation of the previous batches has completed, and rules are         *)
(* processed one after another.                                            *)
(***************************************************************************)
C31_FanOutCap ==
    [][ /\ Cardinality(in_flight') <= max_concurrent'
        /\ (Len(ttp_rules) > 1 /\ in_flight' # {}) => max_concurrent' = DefaultMaxConcurrent
        /\ in_flight' \ in_flight # {}
           => /\ in_flight = {}
              /\ Len(results.validations) = batch_start
              /\ \A k \in in_flight' : k > batch_start
        /\ in_flight' # {}
           => /\ in_flight' \subseteq 1..ttp_rules[rule_no']
              /\ Len(all_results') = rule_no' - 1
              /\ \A j \in 1..Len(all_results') :
                    Len(all_results'[j].validations) = ttp_rules[j]
      ]_vars

\* the second batch of the second rule is in flight
C31_Witness ==
    /\ pc = "gather"
    /\ max_concurrent = 2
    /\ rule_no = 2
    /\ batch_start = 2
    /\ in_flight = {3}
    /\ Len(all_results) = 1
    /\ Len(all_results[1].validations) = 3

====
